---- MODULE Spec2Model ----
(***************************************************************************)
(* ArtisanMarket: the cart store, the checkout saga and the cache layer,   *)
(* modelled over the three stores they use: Redis (carts, cache entries,   *)
(* metrics, hot products), PostgreSQL (products, orders, order_items) and  *)
(* Neo4j (PURCHASED relationships).                                        *)
(*                                                                         *)
(* Money is counted in cents.  A uuid4 order id and the datetime.now() of  *)
(* an invocation are both represented by the invocation's index.           *)
(***************************************************************************)
EXTENDS Integers, Sequences, FiniteSets, TLC

VARIABLES redis, pg, neo4j, ck, last, wk

vars == <<redis, pg, neo4j, ck, last, wk>>

\* ------------------------------------------------------------- universe

Users == {"U1", "U2"}

\* The users whose checkouts are followed.
Buyers == {"U1"}

Products == {"P1", "P2"}

\* The place of a product in the parsed product file.
CatalogRank == [p \in Products |-> IF p = "P1" THEN 1 ELSE 2]

\* Prices (cents) of the rows the loader inserts into products.
CatalogPrice == [p \in Products |-> IF p = "P1" THEN 1000 ELSE 500]

\* Quantities a caller passes to add and setQuantity.
Quantities == {0 - 1, 0, 1, 2}

\* Largest quantity a cart line is allowed to reach in the model.
MaxLineQty == 2

\* Number of counted lookups (metric and score increments) that are followed.
MaxCounted == 3

\* Number of clock steps a full cart TTL is divided in.
TtlSteps == 2

CART_TTL == 86400

CACHE_TTL == 3600

TickQuantum == CART_TTL \div TtlSteps

\* The checkout invocations that are followed; each stands for its own uuid4
\* order id.
Invocations == {1, 2}

\* --------------------------------------------------------- partial maps

EmptyMap == << >>

Put(m, k, v) == [x \in (DOMAIN m) \cup {k} |-> IF x = k THEN v ELSE m[x]]

Drop(m, k) == [x \in (DOMAIN m) \ {k} |-> m[x]]

\* ------------------------------------------------------ integers as text
\* A text is the sequence of the code points of its characters: "12" is
\* <<49, 50>>.

\* The characters U+0020 to U+005F and U+0061 to U+007E, in the order of their
\* code points.
UpperAscii ==
    <<" ", "!", "\"", "#", "$", "%", "&", "'", "(", ")", "*", "+", ",", "-",
      ".", "/", "0", "1", "2", "3", "4", "5", "6", "7", "8", "9", ":", ";",
      "<", "=", ">", "?", "@", "A", "B", "C", "D", "E", "F", "G", "H", "I",
      "J", "K", "L", "M", "N", "O", "P", "Q", "R", "S", "T", "U", "V", "W",
      "X", "Y", "Z", "[", "\\", "]", "^", "_">>

LowerAscii ==
    <<"a", "b", "c", "d", "e", "f", "g", "h", "i", "j", "k", "l", "m", "n",
      "o", "p", "q", "r", "s", "t", "u", "v", "w", "x", "y", "z", "{", "|",
      "}", "~">>

\* ord(c) of a character of ASCII.
Ord(c) ==
    CASE c = "\t" -> 9 [] c = "\n" -> 10 [] c = "\f" -> 12 [] c = "\r" -> 13
      [] \E i \in 1..Len(UpperAscii) : UpperAscii[i] = c ->
            31 + (CHOOSE i \in 1..Len(UpperAscii) : UpperAscii[i] = c)
      [] OTHER -> 96 + (CHOOSE i \in 1..Len(LowerAscii) : LowerAscii[i] = c)

\* The text of a sequence of characters of ASCII.
Text(chars) == [i \in 1..Len(chars) |-> Ord(chars[i])]

Zero == Ord("0")

Plus == Ord("+")

Minus == Ord("-")

Underscore == Ord("_")

\* The characters of general category Nd come in runs of ten, "0" to "9" of a
\* script; these are the code points of the zeros (Unicode 14.0).
DigitZeros ==
    {48, 1632, 1776, 1984, 2406, 2534, 2662, 2790, 2918, 3046, 3174, 3302,
     3430, 3558, 3664, 3792, 3872, 4160, 4240, 6112, 6160, 6470, 6608, 6784,
     6800, 6992, 7088, 7232, 7248, 42528, 43216, 43264, 43472, 43504, 43600,
     44016, 65296, 66720, 68912, 69734, 69872, 69942, 70096, 70384, 70736,
     70864, 71248, 71360, 71472, 71904, 72016, 72784, 73040, 73120, 92768,
     92864, 93008, 120782, 120792, 120802, 120812, 120822, 123200, 123632,
     125264, 130032}

DigitChars == UNION {z..(z + 9) : z \in DigitZeros}

\* The decimal value of a digit of any script.
DigitValue == [c \in DigitChars |-> c - (CHOOSE z \in DigitZeros : c \in z..(z + 9))]

RECURSIVE NatText(_)
NatText(n) ==
    IF n < 10 THEN <<Zero + n>>
    ELSE Append(NatText(n \div 10), Zero + (n % 10))

\* str(n) of a Python int, and the text Redis keeps for an integer.
str_int(n) == IF n < 0 THEN <<Minus>> \o NatText(-n) ELSE NatText(n)

\* The characters int() strips from both ends: \t \n \x0b \x0c \r, the space,
\* U+0085, U+00A0, U+1680, U+2000 to U+200A, U+2028, U+2029, U+202F, U+205F
\* and U+3000.  (U+001C to U+001F are whitespace for str.strip, not for int.)
WhiteSpace ==
    (9..13) \cup {32, 133, 160, 5760} \cup (8192..8202)
        \cup {8232, 8233, 8239, 8287, 12288}

RECURSIVE LStrip(_)
LStrip(t) == IF t # << >> /\ Head(t) \in WhiteSpace THEN LStrip(Tail(t)) ELSE t

RECURSIVE RStrip(_)
RStrip(t) ==
    IF t # << >> /\ t[Len(t)] \in WhiteSpace THEN RStrip(SubSeq(t, 1, Len(t) - 1))
    ELSE t

\* The digits of a Python integer literal: digits, with single underscores
\* between them.
DigitGroups(body) ==
    /\ body # << >>
    /\ \A i \in 1..Len(body) : body[i] \in DigitChars \cup {Underscore}
    /\ body[1] # Underscore /\ body[Len(body)] # Underscore
    /\ \A i \in 1..(Len(body) - 1) : ~(body[i] = Underscore /\ body[i + 1] = Underscore)

RECURSIVE DigitsValue(_, _)
DigitsValue(body, acc) ==
    IF body = << >> THEN acc
    ELSE IF Head(body) = Underscore THEN DigitsValue(Tail(body), acc)
    ELSE DigitsValue(Tail(body), 10 * acc + DigitValue[Head(body)])

\* int(text) of Python for a str: surrounding whitespace, an optional ASCII
\* sign, decimal digits of any script.  ok is FALSE where int raises
\* ValueError.  (Texts of more than 4300 digits, which int rejects as well,
\* are not followed.)
py_int(text) ==
    LET t == RStrip(LStrip(text))
        signed == t # << >> /\ t[1] \in {Plus, Minus}
        body == IF signed THEN Tail(t) ELSE t
        ok == DigitGroups(body)
        v == IF ok THEN DigitsValue(body, 0) ELSE 0
    IN [ok |-> ok, n |-> IF signed /\ t[1] = Minus THEN -v ELSE v]

\* ------------------------------------------------- Redis server commands
\* redis = [hashes  : key -> (field -> integer)     the carts,
\*          strings : key -> text                    the cache entries,
\*          counters: key -> integer                 the INCR counters,
\*          hot     : member -> score                the sorted set hot_products,
\*          ttl     : key -> seconds left].
\* A key exists iff it is in DOMAIN hashes or DOMAIN strings; it has an expiry
\* iff it is in DOMAIN ttl.

Exists(r, key) == key \in DOMAIN r.hashes \/ key \in DOMAIN r.strings

HGETALL(r, key) == IF Exists(r, key) THEN r.hashes[key] ELSE EmptyMap

\* Mutant: the field is overwritten with n.
HINCRBY_overwrite(r, key, field, n) ==
    [r EXCEPT !.hashes = Put(@, key, Put(HGETALL(r, key), field, n))]

HINCRBY(r, key, field, n) ==
    LET h == HGETALL(r, key)
        old == IF field \in DOMAIN h THEN h[field] ELSE 0
    IN [r EXCEPT !.hashes = Put(@, key, Put(h, field, old + n))]

\* Mutant: v is added to what the field holds.
HSET_additive(r, key, field, v) == HINCRBY(r, key, field, v)

HSET(r, key, field, v) ==
    [r EXCEPT !.hashes = Put(@, key, Put(HGETALL(r, key), field, v))]

DEL(r, key) ==
    [r EXCEPT !.hashes = Drop(@, key), !.strings = Drop(@, key),
              !.ttl = Drop(@, key)]

HDEL(r, key, field) ==
    LET h == Drop(HGETALL(r, key), field)
    IN IF ~Exists(r, key) THEN r
       ELSE IF DOMAIN h = {} THEN DEL(r, key)
       ELSE [r EXCEPT !.hashes = Put(@, key, h)]

EXPIRE(r, key, seconds) ==
    IF Exists(r, key) THEN [r EXCEPT !.ttl = Put(@, key, seconds)] ELSE r

\* The server's clock advances by d seconds: every key whose time is up is
\* deleted.
Elapse(r, d) ==
    LET dead == {k \in DOMAIN r.ttl : r.ttl[k] <= d}
    IN [r EXCEPT !.hashes = [k \in (DOMAIN @) \ dead |-> @[k]],
                 !.strings = [k \in (DOMAIN @) \ dead |-> @[k]],
                 !.ttl = [k \in (DOMAIN @) \ dead |-> @[k] - d]]

Nil == [nil |-> TRUE]

GET(r, key) == IF key \in DOMAIN r.strings THEN r.strings[key] ELSE Nil

SETEX(r, key, seconds, text) ==
    [r EXCEPT !.strings = Put(@, key, text), !.ttl = Put(@, key, seconds)]

INCR(r, key) ==
    [r EXCEPT !.counters =
        Put(@, key, (IF key \in DOMAIN @ THEN @[key] ELSE 0) + 1)]

ZINCRBY(r, member, n) ==
    [r EXCEPT !.hot =
        Put(@, member, (IF member \in DOMAIN @ THEN @[member] ELSE 0) + n)]

\* ------------------------------------------------ RedisClient (cart part)

get_cart_key(user_id) == "cart:" \o user_id


\* Mutant: the field is not deleted.
remove_from_cart_skipped(r, user_id, product_id) == r

\* Mutant: the whole cart is deleted with the field.
remove_from_cart_whole_cart(r, user_id, product_id) == DEL(r, get_cart_key(user_id))

RedisClient_remove_from_cart(r, user_id, product_id) ==
    HDEL(r, get_cart_key(user_id), product_id)

RedisClient_get_cart(r, user_id) == HGETALL(r, get_cart_key(user_id))

\* Mutant: every cart is deleted.
clear_cart_every_user(r, user_id) ==
    [r EXCEPT !.hashes = EmptyMap,
              !.ttl = [k \in (DOMAIN @) \ (DOMAIN r.hashes) |-> @[k]]]

RedisClient_clear_cart(r, user_id) == DEL(r, get_cart_key(user_id))

\* ---------------------------------------------------------------- threads
\* The handlers are run by the threads of the API server, one Redis command
\* or one query at a time, and the commands of different calls interleave.
\* wk.job[w] is the call thread w is in: its handler (kind), the command it
\* sends next (pc) and the locals it still uses: the key, the arguments (for
\* a product read also the optional user_id, {} or {u}), the
\* value it holds, whether it ran its query, how many cache metric counters
\* it incremented and whether get_json warned.
\* wk.reads, wk.counted and wk.added are a history of what the calls did
\* (product reads that returned, lookups counted per counter, quantities
\* added per cart line), kept in the executions where wk.tallied.
\* wk.loader is the position of the graph loader process.
\*
\* last: the most recent call that ended and what its caller got back ("ok",
\* or the exception that reached it); for a cached lookup also its cache
\* key, the value returned, whether it ran its Record Store query, how many
\* cache metric counters it incremented and whether get_json warned; for a
\* product read also the cache_status its handler put into the product.  A
\* step that ends no call leaves a marker.

PyNone == [kind |-> "None"]

Call(op, out) ==
    [op |-> op, out |-> out, key |-> "", value |-> PyNone, queried |-> FALSE,
     counted |-> 0, warned |-> FALSE, cache_status |-> ""]

Workers == {"W1", "W2"}

WorkerRank == [w \in Workers |-> IF w = "W1" THEN 1 ELSE 2]

IdleJob == [pc |-> "idle", kind |-> "-", key |-> "", args |-> << >>, user_id |-> {},
            held |-> PyNone, queried |-> FALSE, counted |-> 0, warned |-> FALSE]

Busy(w) == wk.job[w].pc # "idle"

\* A call is taken by the first thread that is free.
Takes(w) == ~Busy(w) /\ \A v \in Workers : WorkerRank[v] < WorkerRank[w] => Busy(v)

SetJob(w, job) == [wk EXCEPT !.job = [@ EXCEPT ![w] = job]]

Tally(m, k, n) ==
    IF wk.tallied THEN Put(m, k, (IF k \in DOMAIN m THEN m[k] ELSE 0) + n) ELSE m

WorkerStep == Call("worker", "step")

\* What the caller of the call in job gets.
Done(job, out, value) ==
    [op |-> job.kind, out |-> out, key |-> job.key, value |-> value,
     queried |-> job.queried, counted |-> job.counted, warned |-> job.warned,
     cache_status |-> ""]

\* --------------------------------------------------------- CartService

\* A line never grows past MaxLineQty in the model.
FitsLine(r, user_id, product_id, quantity) ==
    LET h == RedisClient_get_cart(r, user_id)
    IN (IF product_id \in DOMAIN h THEN h[product_id] ELSE 0) + quantity
          <= MaxLineQty

\* The call of thread w has sent its field write and sends EXPIRE next.
ExpireJob(kind, user_id) ==
    [IdleJob EXCEPT !.pc = "expire", !.kind = kind, !.key = get_cart_key(user_id)]

\* Mutant: the quantity is not validated.
add_to_cart_unvalidated(w, user_id, product_id, quantity) ==
    /\ Takes(w)
    /\ FitsLine(redis, user_id, product_id, quantity)
    /\ redis' = HINCRBY(redis, get_cart_key(user_id), product_id, quantity)
    /\ wk' = SetJob(w, ExpireJob("add", user_id))
    /\ last' = WorkerStep
    /\ UNCHANGED <<pg, neo4j, ck>>

\* add_to_cart up to its first command: ValueError unless quantity > 0, then
\* RedisClient.add_to_cart sends HINCRBY, which may raise.
CartService_add_to_cart(w, user_id, product_id, quantity) ==
    /\ Takes(w)
    /\ FitsLine(redis, user_id, product_id, quantity)
    /\ \/ /\ quantity <= 0
          /\ redis' = redis /\ wk' = wk
          /\ last' = Call("add", "ValueError")
       \/ /\ quantity > 0
          /\ redis' = redis /\ wk' = wk
          /\ last' = Call("add", "RedisError")
       \/ /\ quantity > 0
          /\ redis' = HINCRBY(redis, get_cart_key(user_id), product_id, quantity)
          /\ wk' = [SetJob(w, ExpireJob("add", user_id)) EXCEPT
                       !.added = Tally(@, <<user_id, product_id>>, quantity)]
          /\ last' = WorkerStep
    /\ UNCHANGED <<pg, neo4j, ck>>

\* RedisClient.add_to_cart, second command: EXPIRE cart_key CART_TTL, and the
\* return.  EXPIRE of a key that is gone does nothing and does not raise.
RedisClient_add_to_cart_expire(w) ==
    LET job == wk.job[w]
    IN /\ job.kind = "add" /\ job.pc = "expire"
       /\ \/ /\ redis' = EXPIRE(redis, job.key, CART_TTL)
             /\ last' = Call("add", "ok")
          \/ /\ redis' = redis
             /\ last' = Call("add", "RedisError")
       /\ wk' = SetJob(w, IdleJob)
       /\ UNCHANGED <<pg, neo4j, ck>>

CartService_remove_from_cart(user_id, product_id) ==
    /\ \/ /\ redis' = RedisClient_remove_from_cart(redis, user_id, product_id)
          /\ last' = Call("remove", "ok")
       \/ /\ redis' = redis
          /\ last' = Call("remove", "RedisError")
    /\ UNCHANGED <<pg, neo4j, ck, wk>>

\* Mutant: quantity 0 is stored like any other quantity.
update_item_quantity_stores_zero(w, user_id, product_id, quantity) ==
    /\ Takes(w)
    /\ quantity >= 0
    /\ redis' = HSET(redis, get_cart_key(user_id), product_id, quantity)
    /\ wk' = SetJob(w, ExpireJob("update", user_id))
    /\ last' = WorkerStep
    /\ UNCHANGED <<pg, neo4j, ck>>

\* update_item_quantity up to its first command: ValueError if quantity < 0;
\* 0 is remove_from_cart (HDEL, and the return); otherwise
\* RedisClient.update_cart_item_quantity sends HSET.
CartService_update_item_quantity(w, user_id, product_id, quantity) ==
    /\ Takes(w)
    /\ \/ /\ quantity < 0
          /\ redis' = redis /\ wk' = wk
          /\ last' = Call("update", "ValueError")
       \/ /\ quantity = 0
          /\ redis' = RedisClient_remove_from_cart(redis, user_id, product_id)
          /\ wk' = wk
          /\ last' = Call("update", "ok")
       \/ /\ quantity >= 0
          /\ redis' = redis /\ wk' = wk
          /\ last' = Call("update", "RedisError")
       \/ /\ quantity > 0
          /\ redis' = HSET(redis, get_cart_key(user_id), product_id, quantity)
          /\ wk' = SetJob(w, ExpireJob("update", user_id))
          /\ last' = WorkerStep
    /\ UNCHANGED <<pg, neo4j, ck>>

\* RedisClient.update_cart_item_quantity, second command: EXPIRE, and the
\* return.
RedisClient_update_cart_item_quantity_expire(w) ==
    LET job == wk.job[w]
    IN /\ job.kind = "update" /\ job.pc = "expire"
       /\ \/ /\ redis' = EXPIRE(redis, job.key, CART_TTL)
             /\ last' = Call("update", "ok")
          \/ /\ redis' = redis
             /\ last' = Call("update", "RedisError")
       /\ wk' = SetJob(w, IdleJob)
       /\ UNCHANGED <<pg, neo4j, ck>>

CartService_clear_cart(user_id) ==
    /\ \/ /\ redis' = RedisClient_clear_cart(redis, user_id)
          /\ last' = Call("clear", "ok")
       \/ /\ redis' = redis
          /\ last' = Call("clear", "RedisError")
    /\ UNCHANGED <<pg, neo4j, ck, wk>>

\* Time passes on the Redis server.
Tick ==
    /\ DOMAIN redis.ttl # {}
    /\ redis' = Elapse(redis, TickQuantum)
    /\ last' = Call("tick", "ok")
    /\ UNCHANGED <<pg, neo4j, ck, wk>>

\* ------------------------------------------------------------ PostgreSQL
\* pg = [products : id -> price, orders, order_items : sets of committed rows,
\* product_embeddings : the product ids that have a row in product_embeddings].
\* A transaction's writes are held in tx = [products, orders, order_items,
\* product_embeddings] until the cursor's context manager exits.

NoWrites ==
    [products |-> EmptyMap, orders |-> {}, order_items |-> {},
     product_embeddings |-> {}]

\* Mutant: the commit is lost.
commit_lost(db, tx) == db

\* Mutant: the commit makes the items visible and not their order.
commit_items_only(db, tx) == [db EXCEPT !.order_items = @ \cup tx.order_items]

\* Mutant: the commit replaces the rows the tables held.
commit_replaces(db, tx) ==
    [db EXCEPT !.orders = tx.orders, !.order_items = tx.order_items]

\* conn.commit(): the rows the statements of the block wrote become visible
\* together.  A product row is written with ON CONFLICT (id) DO NOTHING: a
\* row that is there keeps its price.
commit(db, tx) ==
    [db EXCEPT !.products = [p \in DOMAIN @ \cup DOMAIN tx.products |->
                                IF p \in DOMAIN @ THEN @[p] ELSE tx.products[p]],
               !.orders = @ \cup tx.orders,
               !.order_items = @ \cup tx.order_items,
               !.product_embeddings = @ \cup tx.product_embeddings]

\* Mutant: the rollback leaves the writes made so far in the tables.
rollback_keeps_writes(db, tx) == commit(db, tx)

rollback(db, tx) == db

\* Mutant: the connection commits each statement as it is run.
get_cursor_exit_autocommit(db, tx, raised) == commit(db, tx)

\* get_cursor: commit when the block ends normally and the commit succeeds,
\* rollback and re-raise otherwise.
get_cursor_exit(db, tx, raised) ==
    IF raised THEN rollback(db, tx) ELSE commit(db, tx)

\* The writes a transaction may hold when one of its statements, or its
\* commit, raises: none (the INSERT of the order failed), or the order row
\* and the items inserted before the failure.
PendingWrites(all) ==
    {NoWrites} \cup
    {[all EXCEPT !.order_items = done] : done \in SUBSET all.order_items}

\* Mutant: prices come from the catalog, whether or not the row exists.
select_prices_catalog(db, product_ids) ==
    [p \in product_ids |-> CatalogPrice[p]]

\* SELECT id, price FROM products WHERE id = ANY(product_ids)
select_prices(db, product_ids) ==
    [p \in product_ids \cap DOMAIN db.products |-> db.products[p]]

\* if len(product_prices) != len(product_ids)
products_missing(product_prices, product_ids) ==
    Cardinality(DOMAIN product_prices) # Cardinality(product_ids)

\* load_products, in one transaction: INSERT INTO products ... ON CONFLICT
\* (id) DO NOTHING for the row of product_id.  The connection, the INSERT or
\* the commit may raise: get_cursor rolls back and re-raises, with the row
\* written or not yet written.
Loader_load_product(product_id) ==
    LET tx == [NoWrites EXCEPT
                  !.products = [p \in {product_id} |-> CatalogPrice[p]]]
    IN /\ product_id \notin DOMAIN pg.products
       /\ \/ /\ pg' = get_cursor_exit(pg, tx, FALSE)
             /\ last' = Call("load", "ok")
          \/ /\ \E held \in {NoWrites, tx} : pg' = get_cursor_exit(pg, held, TRUE)
             /\ last' = Call("load", "PostgresError")
       /\ UNCHANGED <<redis, neo4j, ck, wk>>

\* The products whose price is changed.
Repriced == {"P1"}

\* The price a row of products is changed to.
RaisedPrice == [p \in Products |-> CatalogPrice[p] + 200]

\* A price changed in the products table (price DECIMAL(10, 2)).  No handler
\* of the services does this; it is a statement run against the table.
Products_set_price(product_id, price) ==
    /\ product_id \in DOMAIN pg.products
    /\ pg.products[product_id] # price
    /\ pg' = [pg EXCEPT !.products = Put(@, product_id, price)]
    /\ last' = Call("price", "ok")
    /\ UNCHANGED <<redis, neo4j, ck, wk>>

\* The batches of product ids load_embeddings stores: products.iloc[i : i +
\* batch_size] of the parsed product file, for batch sizes 1 and 32.
Batches == {{"P1"}, {"P2"}, {"P1", "P2"}}

\* load_embeddings stores its batches in the order of the file: a batch is
\* stored after the batches before it.
Earlier(product_ids) ==
    {p \in Products : \A q \in product_ids : CatalogRank[p] < CatalogRank[q]}

\* _store_embeddings_batch, in one transaction: INSERT INTO product_embeddings
\* ... ON CONFLICT (product_id) DO UPDATE SET embedding, one statement for
\* the batch.  product_id REFERENCES products(id): a batch that names a
\* product without a row raises; the connection, the INSERT or the commit
\* may raise as well.  get_cursor rolls back and re-raises.
VectorLoader_store_embeddings_batch(product_ids) ==
    LET tx == [NoWrites EXCEPT !.product_embeddings = product_ids]
    IN /\ Earlier(product_ids) \subseteq pg.product_embeddings
       /\ \/ /\ product_ids \subseteq DOMAIN pg.products
             /\ pg' = get_cursor_exit(pg, tx, FALSE)
             /\ last' = Call("embed", "ok")
          \/ /\ \E held \in {NoWrites} \cup
                       (IF product_ids \subseteq DOMAIN pg.products
                        THEN {tx} ELSE {}) :
                   pg' = get_cursor_exit(pg, held, TRUE)
             /\ last' = Call("embed", "PostgresError")
       /\ UNCHANGED <<redis, neo4j, ck, wk>>

\* ----------------------------------------------------- PurchaseGenerator
\* The purchase generator loads generated orders into the tables the
\* checkout writes.  A generated order is a frame of purchase lines, each a
\* product and a quantity; relevant_products.sample(n=num_items, replace=True)
\* can draw the same product for two lines.

Line(product_id, quantity) == [product_id |-> product_id, quantity |-> quantity]

\* The uuid4 order ids of the generated orders that are followed.
GeneratedOrderIds == {3}

\* The frames of lines that are followed.
GeneratedPurchases ==
    {<<Line("P1", 1), Line("P2", 2)>>, <<Line("P1", 1), Line("P1", 2)>>}

\* generate_purchases: (price_at_purchase * quantity).sum() over the lines of
\* the order; price_at_purchase is the price of the parsed product file.
RECURSIVE order_totals(_)
order_totals(lines) ==
    IF lines = << >> THEN 0
    ELSE CatalogPrice[Head(lines).product_id] * Head(lines).quantity
             + order_totals(Tail(lines))

\* INSERT INTO order_items ... ON CONFLICT (order_id, product_id) DO NOTHING,
\* line after line: a line whose key is there is dropped.
RECURSIVE insert_order_items(_, _, _)
insert_order_items(items, order_id, lines) ==
    IF lines = << >> THEN items
    ELSE insert_order_items(
             IF \E it \in items : it.order_id = order_id
                                    /\ it.product_id = Head(lines).product_id
             THEN items
             ELSE items \cup
                  {[order_id |-> order_id, product_id |-> Head(lines).product_id,
                    quantity |-> Head(lines).quantity,
                    price_at_purchase |-> CatalogPrice[Head(lines).product_id]]},
             order_id, Tail(lines))

\* load_into_postgres for one generated order, in one transaction: INSERT
\* INTO orders ... ON CONFLICT (id) DO NOTHING, then the lines.  A line of a
\* product that has no row in products violates the foreign key; the
\* connection, a statement or the commit may raise as well.  get_cursor rolls
\* back what the statements before the failure wrote and re-raises.
PurchaseGenerator_load_into_postgres(order_id, user_id, lines) ==
    LET order == [id |-> order_id, user_id |-> user_id, order_date |-> order_id,
                  total_price |-> order_totals(lines), status |-> "shipped"]
        tx == [NoWrites EXCEPT
                  !.orders = IF \E o \in pg.orders : o.id = order_id
                             THEN {} ELSE {order},
                  !.order_items =
                      insert_order_items(pg.order_items, order_id, lines)
                          \ pg.order_items]
        known == \A n \in 1..Len(lines) : lines[n].product_id \in DOMAIN pg.products
    IN /\ \/ /\ known
             /\ pg' = get_cursor_exit(pg, tx, FALSE)
             /\ last' = Call("generate", "ok")
          \/ /\ \E held \in PendingWrites(tx) :
                   /\ \A it \in held.order_items :
                          it.product_id \in DOMAIN pg.products
                   /\ pg' = get_cursor_exit(pg, held, TRUE)
             /\ last' = Call("generate", "PostgresError")
       /\ UNCHANGED <<redis, neo4j, ck, wk>>

\* ----------------------------------------------------------------- Neo4j
\* neo4j = [users, products : the nodes, purchased : the PURCHASED
\* relationships, viewed : how many VIEWED relationships join a user and a
\* product].  CREATE makes a new relationship every time it runs, so
\* two nodes can be joined by several relationships with the same properties:
\* rel numbers the relationships that have the same ends and properties.

\* How many relationships of the same ends and properties are followed.
MaxSameEdges == 2

SameEdges(g, user_id, product_id, quantity, date) ==
    {e \in g.purchased : /\ e.user_id = user_id /\ e.product_id = product_id
                         /\ e.quantity = quantity /\ e.date = date}

\* Mutant: the relationship is created with quantity 1.
add_purchase_unit_quantity(g, user_id, product_id, quantity, date) ==
    [g EXCEPT !.purchased = @ \cup
        {[user_id |-> user_id, product_id |-> product_id,
          quantity |-> 1, date |-> date,
          rel |-> 1 + Cardinality(SameEdges(g, user_id, product_id, 1, date))]}]

\* MATCH (u:User), MATCH (p:Product), CREATE (u)-[:PURCHASED]->(p): a new
\* relationship, and none when a node is missing.
Neo4jClient_add_purchase(g, user_id, product_id, quantity, date) ==
    IF user_id \in g.users /\ product_id \in g.products
    THEN [g EXCEPT !.purchased = @ \cup
            {[user_id |-> user_id, product_id |-> product_id,
              quantity |-> quantity, date |-> date,
              rel |-> 1 + Cardinality(
                            SameEdges(g, user_id, product_id, quantity, date))]}]
    ELSE g

\* The VIEWED relationships from user_id to product_id.
ViewsOf(g, user_id, product_id) ==
    IF <<user_id, product_id>> \in DOMAIN g.viewed
    THEN g.viewed[<<user_id, product_id>>] ELSE 0

\* MATCH (u:User), MATCH (p:Product), CREATE (u)-[:VIEWED {timestamp}]->(p): a
\* new relationship, and none when a node is missing.
Neo4jClient_add_view(g, user_id, product_id) ==
    IF user_id \in g.users /\ product_id \in g.products
    THEN [g EXCEPT !.viewed = Put(@, <<user_id, product_id>>,
                                   ViewsOf(g, user_id, product_id) + 1)]
    ELSE g

\* The rows of the user and product files, in the order of the file.
UserRank == [u \in Users |-> IF u = "U1" THEN 1 ELSE 2]

\* The graph loader is a process of its own.  wk.loader is where it stands:
\* the statement it sends next (pc) and the row of the file that statement
\* takes.  Every session.run is a transaction of its own, so the statements
\* of other processes fall between any two of its statements.
IdleLoader == [pc |-> "idle", row |-> 0]

LoaderStep == Call("loader", "step")

\* clear_database: MATCH (n) DETACH DELETE n
GraphLoader_clear_database ==
    /\ \/ /\ neo4j' = [users |-> {}, products |-> {}, purchased |-> {},
                       viewed |-> EmptyMap]
          /\ last' = Call("clear_database", "ok")
       \/ /\ neo4j' = neo4j
          /\ last' = Call("clear_database", "Neo4jError")
    /\ UNCHANGED <<redis, pg, ck, wk>>

\* load_users, one pass of its loop: CREATE (u:User {id: $id, ...}) for the
\* next row of the file, the first row when the call starts.  The CREATE
\* looks at no other row.  Under the constraint user_id (u.id IS UNIQUE,
\* create_constraints) the CREATE of a user that is there raises; an
\* exception ends the call.  After the last row the call returns.
GraphLoader_load_users ==
    LET n == IF wk.loader.pc = "idle" THEN 1 ELSE wk.loader.row
        user_id == CHOOSE u \in Users : UserRank[u] = n
        more == n < Cardinality(Users)
    IN /\ wk.loader.pc \in {"idle", "users"}
       /\ \/ /\ user_id \notin neo4j.users
             /\ neo4j' = [neo4j EXCEPT !.users = @ \cup {user_id}]
             /\ wk' = [wk EXCEPT !.loader =
                          IF more THEN [pc |-> "users", row |-> n + 1]
                          ELSE IdleLoader]
             /\ last' = IF more THEN LoaderStep ELSE Call("load_users", "ok")
          \/ /\ neo4j' = neo4j
             /\ wk' = [wk EXCEPT !.loader = IdleLoader]
             /\ last' = Call("load_users", "Neo4jError")
       /\ UNCHANGED <<redis, pg, ck>>

\* load_products_and_relationships, first statement of a pass of its loop:
\* CREATE (p:Product {id: $id, ...}) for the next row of the file, the first
\* row when the call starts.  The constraint product_id makes the CREATE of
\* a product that is there raise.
GraphLoader_load_products_and_relationships ==
    LET n == IF wk.loader.pc = "idle" THEN 1 ELSE wk.loader.row
        product_id == CHOOSE p \in Products : CatalogRank[p] = n
    IN /\ wk.loader.pc \in {"idle", "products"}
       /\ \/ /\ product_id \notin neo4j.products
             /\ neo4j' = [neo4j EXCEPT !.products = @ \cup {product_id}]
             /\ wk' = [wk EXCEPT !.loader = [pc |-> "belongs_to", row |-> n]]
             /\ last' = LoaderStep
          \/ /\ neo4j' = neo4j
             /\ wk' = [wk EXCEPT !.loader = IdleLoader]
             /\ last' = Call("load_products", "Neo4jError")
       /\ UNCHANGED <<redis, pg, ck>>

\* load_products_and_relationships, second statement of the pass: MATCH (p),
\* MATCH (c), MERGE (p)-[:BELONGS_TO]->(c), a transaction of its own.  It
\* changes no node, and creates nothing when the product is gone by then;
\* when it raises, the product node stays.  After the last row the call
\* returns.
GraphLoader_load_products_and_relationships_belongs_to ==
    LET n == wk.loader.row
        more == n < Cardinality(Products)
    IN /\ wk.loader.pc = "belongs_to"
       /\ \/ /\ wk' = [wk EXCEPT !.loader =
                          IF more THEN [pc |-> "products", row |-> n + 1]
                          ELSE IdleLoader]
             /\ last' = IF more THEN LoaderStep ELSE Call("load_products", "ok")
          \/ /\ wk' = [wk EXCEPT !.loader = IdleLoader]
             /\ last' = Call("load_products", "Neo4jError")
       /\ UNCHANGED <<redis, pg, neo4j, ck>>
\* --------------------------------------- CartService.convert_cart_to_order
\* ck[i]: invocation i of convert_cart_to_order: where it stands (pc), its
\* locals (todo: the cart lines whose add_purchase is still to run), and what
\* its caller got: error ("none" until it raises) and result.

NoResult == [order_id |-> 0, total_amount |-> 0, items_count |-> 0]

IdleCk ==
    [pc |-> "idle", user_id |-> "-", cart |-> EmptyMap,
     product_prices |-> EmptyMap, total_amount |-> 0, todo |-> {},
     error |-> "none", result |-> NoResult]

CkStep(i) == Call("checkout", "step")

\* An exception leaves the function: its locals are gone.
Raise(c, e) == [IdleCk EXCEPT !.pc = "done", !.user_id = c.user_id, !.error = e]

\* Mutant: the total adds the prices and forgets the quantities.
RECURSIVE SumLines_no_quantity(_, _, _)
SumLines_no_quantity(cart, prices, lines) ==
    IF lines = {} THEN 0
    ELSE LET p == CHOOSE x \in lines : TRUE
         IN prices[p] + SumLines_no_quantity(cart, prices, lines \ {p})

RECURSIVE SumLines(_, _, _)
SumLines(cart, prices, lines) ==
    IF lines = {} THEN 0
    ELSE LET p == CHOOSE x \in lines : TRUE
         IN prices[p] * cart[p] + SumLines(cart, prices, lines \ {p})

order_row(i, c) ==
    [id |-> i, user_id |-> c.user_id, order_date |-> i,
     total_price |-> c.total_amount, status |-> "COMPLETED"]

order_items_to_insert(i, c) ==
    {[order_id |-> i, product_id |-> p, quantity |-> c.cart[p],
      price_at_purchase |-> c.product_prices[p]] : p \in DOMAIN c.cart}

\* Mutant: the emptiness test is missing.
Checkout_get_cart_unchecked(i, user_id) ==
    /\ ck[i].pc = "idle"
    /\ \A j \in Invocations : j < i => ck[j].pc # "idle"
    /\ ck' = [ck EXCEPT ![i] = [@ EXCEPT !.pc = "select", !.user_id = user_id,
                                 !.cart = RedisClient_get_cart(redis, user_id)]]
    /\ last' = Call("checkout", "step")
    /\ UNCHANGED <<redis, pg, neo4j, wk>>

\* Mutant: a checkout waits while another checkout of the same user is between
\* its cart read and its end.
Checkout_get_cart_locked(i, user_id) ==
    /\ \A j \in Invocations :
           ck[j].user_id = user_id => ck[j].pc \in {"idle", "done"}
    /\ Checkout_get_cart_unchecked(i, user_id)
    /\ RedisClient_get_cart(redis, user_id) # EmptyMap

\* cart = redis_client.get_cart(user_id); ValueError when it is empty.
Checkout_get_cart(i, user_id) ==
    /\ ck[i].pc = "idle"
    /\ \A j \in Invocations : j < i => ck[j].pc # "idle"
    /\ \/ /\ RedisClient_get_cart(redis, user_id) = EmptyMap
          /\ ck' = [ck EXCEPT ![i] = Raise([@ EXCEPT !.user_id = user_id], "EmptyCart")]
       \/ /\ RedisClient_get_cart(redis, user_id) # EmptyMap
          /\ ck' = [ck EXCEPT ![i] = [@ EXCEPT !.pc = "select", !.user_id = user_id,
                                       !.cart = RedisClient_get_cart(redis, user_id)]]
       \/ ck' = [ck EXCEPT ![i] = Raise([@ EXCEPT !.user_id = user_id], "RedisError")]
    /\ last' = CkStep(i)
    /\ UNCHANGED <<redis, pg, neo4j, wk>>

\* The with postgres_db.get_cursor() block up to its INSERTs: the connection,
\* SELECT id, price FROM products, the len() test and the total.  The prices
\* read here are the ones the INSERTs use; a raise rolls back a transaction
\* that has written nothing.
Checkout_select_prices(i) ==
    /\ ck[i].pc = "select"
    /\ LET c == ck[i]
           product_ids == DOMAIN c.cart
           product_prices == select_prices(pg, product_ids)
           priced == [c EXCEPT !.product_prices = product_prices,
                               !.total_amount =
                                   SumLines(c.cart, product_prices, product_ids)]
       IN \/ /\ products_missing(product_prices, product_ids)
             /\ pg' = get_cursor_exit(pg, NoWrites, TRUE)
             /\ ck' = [ck EXCEPT ![i] = Raise(c, "ProductsMissing")]
          \/ /\ ~products_missing(product_prices, product_ids)
             /\ pg' = pg
             /\ ck' = [ck EXCEPT ![i] = [priced EXCEPT !.pc = "insert"]]
          \/ /\ pg' = get_cursor_exit(pg, NoWrites, TRUE)
             /\ ck' = [ck EXCEPT ![i] = Raise(c, "PostgresError")]
    /\ last' = CkStep(i)
    /\ UNCHANGED <<redis, neo4j, wk>>

\* The rest of the block: INSERT INTO orders, executemany INSERT INTO
\* order_items, and the exit of the block.  The rows are invisible to every
\* other connection until the commit, so the three are one step.
Checkout_commit(i) ==
    /\ ck[i].pc = "insert"
    /\ LET c == ck[i]
           all == [NoWrites EXCEPT !.orders = {order_row(i, c)},
                                   !.order_items = order_items_to_insert(i, c)]
       IN \/ /\ pg' = get_cursor_exit(pg, all, FALSE)
             /\ ck' = [ck EXCEPT ![i] = [c EXCEPT !.pc = "neo4j",
                                                  !.todo = DOMAIN c.cart]]
          \/ /\ \E tx \in PendingWrites(all) :
                   pg' = get_cursor_exit(pg, tx, TRUE)
             /\ ck' = [ck EXCEPT ![i] = Raise(c, "PostgresError")]
    /\ last' = CkStep(i)
    /\ UNCHANGED <<redis, neo4j, wk>>

\* for product_id, quantity in cart.items(): one neo4j_client.add_purchase,
\* a transaction of its own.  A call that raises ends the invocation; the
\* relationships of the lines before it stay.
Checkout_add_purchase(i, product_id) ==
    /\ ck[i].pc = "neo4j"
    /\ product_id \in ck[i].todo
    /\ LET c == ck[i]
           left == c.todo \ {product_id}
       IN \/ /\ neo4j' = Neo4jClient_add_purchase(
                             neo4j, c.user_id, product_id, c.cart[product_id], i)
             /\ ck' = [ck EXCEPT ![i] =
                         [c EXCEPT !.todo = left,
                                   !.pc = IF left = {} THEN "clear" ELSE "neo4j"]]
          \/ /\ neo4j' = neo4j
             /\ ck' = [ck EXCEPT ![i] = Raise(c, "Neo4jError")]
    /\ last' = CkStep(i)
    /\ UNCHANGED <<redis, pg, wk>>

\* redis_client.clear_cart(user_id) and the return.
Checkout_clear_cart(i) ==
    /\ ck[i].pc = "clear"
    /\ LET c == ck[i]
       IN \/ /\ redis' = RedisClient_clear_cart(redis, c.user_id)
             /\ ck' = [ck EXCEPT ![i] =
                         [IdleCk EXCEPT !.pc = "done", !.user_id = c.user_id,
                                        !.result = [order_id |-> i,
                                                    total_amount |-> c.total_amount,
                                                    items_count |->
                                                        Cardinality(DOMAIN c.cart)]]]
          \/ /\ redis' = redis
             /\ ck' = [ck EXCEPT ![i] = Raise(c, "RedisError")]
    /\ last' = CkStep(i)
    /\ UNCHANGED <<pg, neo4j, wk>>

\* ------------------------------------------------------ Python values
\* None is PyNone; an optional argument is {} (None) or {v}.

PyList(items) == [kind |-> "list", items |-> items]

PyDict(row) == [kind |-> "dict", row |-> row]

\* The scalars json.loads can return besides None.
PyInt(n) == [kind |-> "int", n |-> n]

PyStr(s) == [kind |-> "str", s |-> s]

PyBool(b) == [kind |-> "bool", b |-> b]

\* bool(v): None, False, 0, "" and the empty list and dict are false.
truthy(v) ==
    CASE v.kind = "None" -> FALSE
      [] v.kind = "bool" -> v.b
      [] v.kind = "int" -> v.n # 0
      [] v.kind = "str" -> v.s # ""
      [] v.kind = "list" -> Len(v.items) # 0
      [] v.kind = "dict" -> DOMAIN v.row # {}

None == {}

Some(v) == {v}

Val(o) == CHOOSE v \in o : TRUE

\* bool(s) of an optional string: None and "" are false.
given(o) == o # None /\ Val(o) # ""

\* str(float) of an amount in cents: 500 -> "5.0", 1050 -> "10.5", 1005 -> "10.05".
FloatStr(cents) ==
    ToString(cents \div 100) \o "." \o
    (IF cents % 10 = 0 THEN ToString((cents % 100) \div 10)
     ELSE ToString((cents % 100) \div 10) \o ToString(cents % 10))

RECURSIVE Join(_, _)
Join(parts, sep) ==
    IF parts = << >> THEN ""
    ELSE IF Len(parts) = 1 THEN parts[1]
    ELSE parts[1] \o sep \o Join(Tail(parts), sep)

\* A text kept under a string key, by what json.loads does with it: it
\* returns a value ("value"), or raises JSONDecodeError, or RecursionError
\* (a text nested deeper than the interpreter's limit); "empty" is the text
\* of length 0.
json_dumps(value) == [loads |-> "value", value |-> value]

EmptyText == [loads |-> "empty", value |-> PyNone]

Malformed == [loads |-> "JSONDecodeError", value |-> PyNone]

TooDeep == [loads |-> "RecursionError", value |-> PyNone]

\* The value of a call that raised error.
Raised(error) == [kind |-> "raised", error |-> error]

\* ----------------------------------------------- RedisClient (cache part)

\* Mutant: a stored empty list reads as None.
get_json_falsy(r, key) ==
    LET data == GET(r, key)
    IN IF data = Nil \/ data.loads = "empty" THEN PyNone
       ELSE IF data.loads = "value"
            THEN (IF truthy(data.value) THEN data.value ELSE PyNone)
       ELSE IF data.loads = "JSONDecodeError" THEN PyNone
       ELSE Raised(data.loads)

\* get_json: None for a missing key and for the empty text (if not data),
\* the value json.loads returns, None when it raises JSONDecodeError; any
\* other exception of json.loads leaves get_json.
RedisClient_get_json(r, key) ==
    LET data == GET(r, key)
    IN IF data = Nil \/ data.loads = "empty" THEN PyNone
       ELSE IF data.loads = "value" THEN data.value
       ELSE IF data.loads = "JSONDecodeError" THEN PyNone
       ELSE Raised(data.loads)

\* get_json prints "Warning: Could not decode JSON for key ...": json.loads
\* was called and raised JSONDecodeError.
get_json_warns(r, key) ==
    LET data == GET(r, key)
    IN data # Nil /\ data.loads = "JSONDecodeError"

RedisClient_set_json(r, key, value, ttl) == SETEX(r, key, ttl, json_dumps(value))

\* Mutant: the score increment is lost.
increment_hot_product_score_lost(r, product_id, increment_by) == r

RedisClient_increment_hot_product_score(r, product_id, increment_by) ==
    ZINCRBY(r, product_id, increment_by)

RedisClient_increment_cache_metric(r, metric_name) ==
    INCR(r, "cache_metrics:" \o metric_name)

Metric(r, metric_name) ==
    IF ("cache_metrics:" \o metric_name) \in DOMAIN r.counters
    THEN r.counters["cache_metrics:" \o metric_name] ELSE 0

\* ------------------------------------------------------ the catalog rows
\* The columns of products the queries read besides id and price, and the
\* similarities an embedding gives (in percent); a similarity is {} (NULL) or
\* {n}.

ScanOrder == <<"P1", "P2">>

\* The words of name || ' ' || description || ' ' || array_to_string(tags, ' ').
ProductWords == [p \in Products |-> IF p = "P1" THEN {"vase", "all"} ELSE {"bowls"}]

\* The stop words of the 'english' text search configuration: to_tsvector
\* and websearch_to_tsquery leave them out.
StopWords ==
    {"i", "me", "my", "myself", "we", "our", "ours", "ourselves", "you",
     "your", "yours", "yourself", "yourselves", "he", "him", "his",
     "himself", "she", "her", "hers", "herself", "it", "its", "itself",
     "they", "them", "their", "theirs", "themselves", "what", "which", "who",
     "whom", "this", "that", "these", "those", "am", "is", "are", "was",
     "were", "be", "been", "being", "have", "has", "had", "having", "do",
     "does", "did", "doing", "a", "an", "the", "and", "but", "if", "or",
     "because", "as", "until", "while", "of", "at", "by", "for", "with",
     "about", "against", "between", "into", "through", "during", "before",
     "after", "above", "below", "to", "from", "up", "down", "in", "out",
     "on", "off", "over", "under", "again", "further", "then", "once",
     "here", "there", "when", "where", "why", "how", "all", "any", "both",
     "each", "few", "more", "most", "other", "some", "such", "no", "nor",
     "not", "only", "own", "same", "so", "than", "too", "very", "s", "t",
     "can", "will", "just", "don", "should", "now"}

\* The english stemmer, on the words that are followed.
Stem ==
    [word \in {"vase", "vases", "bowl", "bowls"} |->
        IF word \in {"vase", "vases"} THEN "vase" ELSE "bowl"]

\* The lexemes of a set of words.
Lexemes(words) == {Stem[word] : word \in words \ StopWords}

\* to_tsvector('english', ...) of a row of products, without the positions.
to_tsvector(p) == Lexemes(ProductWords[p])

\* The words of the query texts that are followed.
QueryWords ==
    [q \in {"all", "bowl", "vases", "all bowls"} |->
        CASE q = "all" -> {"all"} [] q = "bowl" -> {"bowl"}
          [] q = "vases" -> {"vases"} [] OTHER -> {"all", "bowls"}]

\* websearch_to_tsquery('english', q) of unquoted words: the conjunction of
\* their lexemes, which is the empty query when all of them are stop words.
websearch_to_tsquery(q) == Lexemes(QueryWords[q])

\* tsvector @@ tsquery: every lexeme of the query is in the vector; the
\* empty query matches no row.
Matches(vector, tsquery) == tsquery # {} /\ tsquery \subseteq vector

ProductCategory == [p \in Products |-> IF p = "P1" THEN "C1" ELSE "C2"]

CategoryName == [c \in {"C1", "C2"} |-> IF c = "C1" THEN "Home" ELSE "Kitchen"]

QuerySimilarity == [p \in Products |-> IF p = "P1" THEN 40 ELSE 90]

ProductSimilarity == [p \in Products |-> 75]

Take(rows, n) == SubSeq(rows, 1, IF n < Len(rows) THEN n ELSE Len(rows))

\* ORDER BY score DESC, rows of equal score in scan order.
RECURSIVE InsertDesc(_, _, _)
InsertDesc(sorted, p, score) ==
    IF sorted = << >> THEN <<p>>
    ELSE IF score[p] > score[Head(sorted)] THEN <<p>> \o sorted
    ELSE <<Head(sorted)>> \o InsertDesc(Tail(sorted), p, score)

RECURSIVE OrderByDesc(_, _)
OrderByDesc(rows, score) ==
    IF rows = << >> THEN << >>
    ELSE InsertDesc(OrderByDesc(SubSeq(rows, 1, Len(rows) - 1), score),
                    rows[Len(rows)], score)

\* The rows of products whose id is in keep, in scan order.
RowsWhere(db, keep) ==
    SelectSeq(ScanOrder, LAMBDA p : p \in DOMAIN db.products /\ p \in keep)

PriceOk(db, p, min_price, max_price) ==
    /\ min_price # None => db.products[p] >= Val(min_price)
    /\ max_price # None => db.products[p] <= Val(max_price)

\* ------------------------------------------------------- product_service

\* SELECT * FROM products WHERE id = %s
get_product_from_db(db, product_id) ==
    IF product_id \in DOMAIN db.products
    THEN PyDict([id |-> product_id, price |-> db.products[product_id],
                 category_id |-> ProductCategory[product_id]])
    ELSE PyNone

Reply(op, key, out, value) ==
    [op |-> op, out |-> out, key |-> key, value |-> value, queried |-> FALSE,
     counted |-> 0, warned |-> FALSE, cache_status |-> ""]

\* The reply of a call whose get_json printed its warning.
Warned(reply) == [reply EXCEPT !.warned = TRUE]

RECURSIVE SumMap(_)
SumMap(m) ==
    IF DOMAIN m = {} THEN 0
    ELSE LET k == CHOOSE x \in DOMAIN m : TRUE
         IN m[k] + SumMap(Drop(m, k))

LookupOps == {"product", "search", "semantic", "similar"}

\* The model follows MaxCounted counted lookups, those under way included.
Budget ==
    SumMap(redis.counters) + SumMap(redis.hot)
        + Cardinality({w \in Workers : wk.job[w].kind \in LookupOps}) < MaxCounted

\* f"product:{product_id}"
product_cache_key(product_id) == "product:" \o product_id

\* The handler get_product_from_cache calls get_product_by_id(product_id,
\* user_id=user_id); the call up to its first command:
\* cached_product = redis_client.get_json(cache_key).
ProductService_get_product_by_id(w, product_id, user_id) ==
    LET cache_key == product_cache_key(product_id)
        cached_product == RedisClient_get_json(redis, cache_key)
        job == [IdleJob EXCEPT !.kind = "product", !.key = cache_key,
                               !.args = product_id, !.user_id = user_id,
                               !.warned = get_json_warns(redis, cache_key)]
    IN /\ Takes(w) /\ Budget
       /\ \/ /\ wk' = wk
             /\ last' = Reply("product", cache_key, "RedisGetError", PyNone)
          \/ /\ cached_product.kind = "raised"
             /\ wk' = wk
             /\ last' = Reply("product", cache_key, cached_product.error, PyNone)
          \/ /\ cached_product.kind # "raised" /\ truthy(cached_product)
             /\ wk' = SetJob(w, [job EXCEPT !.held = cached_product, !.pc = "zincrby"])
             /\ last' = WorkerStep
          \/ /\ cached_product.kind # "raised" /\ ~truthy(cached_product)
             /\ wk' = SetJob(w, [job EXCEPT !.pc = "query"])
             /\ last' = WorkerStep
       /\ UNCHANGED <<redis, pg, neo4j, ck>>

\* product = get_product_from_db(product_id); a product that is not found is
\* returned as None without another command, and the handler raises
\* HTTPException(status_code=404) (if not product).
get_product_by_id_query(w) ==
    LET job == [wk.job[w] EXCEPT !.queried = TRUE]
        product == get_product_from_db(pg, job.args)
    IN /\ wk.job[w].kind = "product" /\ wk.job[w].pc = "query"
       /\ \/ /\ wk' = SetJob(w, IdleJob)
             /\ last' = Done(job, "PostgresError", PyNone)
          \/ /\ truthy(product)
             /\ wk' = SetJob(w, [job EXCEPT !.held = product, !.pc = "setex"])
             /\ last' = WorkerStep
          \/ /\ ~truthy(product)
             /\ wk' = SetJob(w, IdleJob)
             /\ last' = Done(job, "HTTPException", product)
       /\ UNCHANGED <<redis, pg, neo4j, ck>>

\* redis_client.set_json(cache_key, product)
get_product_by_id_set_json(w) ==
    LET job == wk.job[w]
    IN /\ job.kind = "product" /\ job.pc = "setex"
       /\ \/ /\ redis' = redis
             /\ wk' = SetJob(w, IdleJob)
             /\ last' = Done(job, "RedisSetError", PyNone)
          \/ /\ redis' = RedisClient_set_json(redis, job.key, job.held, CACHE_TTL)
             /\ wk' = SetJob(w, [job EXCEPT !.pc = "zincrby"])
             /\ last' = WorkerStep
       /\ UNCHANGED <<pg, neo4j, ck>>

\* redis_client.increment_hot_product_score(product_id); get_product_by_id
\* returns the product to the handler when no user_id was given (if user_id).
get_product_by_id_increment_score(w) ==
    LET job == wk.job[w]
    IN /\ job.kind = "product" /\ job.pc = "zincrby"
       /\ \/ /\ redis' = redis
             /\ wk' = SetJob(w, IdleJob)
             /\ last' = Done(job, "RedisZincrbyError", PyNone)
          \/ /\ redis' = RedisClient_increment_hot_product_score(redis, job.args, 1)
             /\ wk' = SetJob(w, [job EXCEPT !.pc =
                          IF given(job.user_id) THEN "view" ELSE "exists"])
             /\ last' = WorkerStep
       /\ UNCHANGED <<pg, neo4j, ck>>

\* neo4j_client.add_view(user_id, product_id), after which get_product_by_id
\* returns the product to the handler; an exception of add_view leaves
\* get_product_by_id and the handler.
get_product_by_id_add_view(w) ==
    LET job == wk.job[w]
    IN /\ job.kind = "product" /\ job.pc = "view"
       /\ \/ /\ neo4j' = neo4j
             /\ wk' = SetJob(w, IdleJob)
             /\ last' = Done(job, "Neo4jError", PyNone)
          \/ /\ neo4j' = Neo4jClient_add_view(neo4j, Val(job.user_id), job.args)
             /\ wk' = SetJob(w, [job EXCEPT !.pc = "exists"])
             /\ last' = WorkerStep
       /\ UNCHANGED <<redis, pg, ck>>

\* The last command of the handler, sent after get_product_by_id returned a
\* product: redis_client.client.exists(cache_key), outside any try.  The
\* handler returns the product with cache_status 'HIT' when the key is
\* there and 'MISS' when it is not; an exception of EXISTS leaves the
\* handler.
get_product_from_cache_exists(w) ==
    LET job == wk.job[w]
        returned == Done(job, "ok", job.held)
    IN /\ job.kind = "product" /\ job.pc = "exists"
       /\ \/ /\ wk' = SetJob(w, IdleJob)
             /\ last' = Done(job, "RedisExistsError", PyNone)
          \/ /\ wk' = [SetJob(w, IdleJob) EXCEPT !.reads = Tally(@, job.args, 1)]
             /\ last' = [returned EXCEPT !.cache_status =
                             IF Exists(redis, job.key) THEN "HIT" ELSE "MISS"]
       /\ UNCHANGED <<redis, pg, neo4j, ck>>

\* The names of the hit and miss metrics of the three list lookups.
HitMetric == [op \in {"search", "semantic", "similar"} |->
    CASE op = "search" -> "hits" [] op = "semantic" -> "semantic_hits"
      [] OTHER -> "similar_hits"]

MissMetric == [op \in {"search", "semantic", "similar"} |->
    CASE op = "search" -> "misses" [] op = "semantic" -> "semantic_misses"
      [] OTHER -> "similar_misses"]

\* The cache-aside part the three list lookups share, up to its first
\* command: cached_results = redis_client.get_json(cache_key).
CacheAside(w, op, cache_key, args) ==
    LET cached_results == RedisClient_get_json(redis, cache_key)
        job == [IdleJob EXCEPT !.kind = op, !.key = cache_key, !.args = args,
                               !.held = cached_results, !.pc = "incr",
                               !.warned = get_json_warns(redis, cache_key)]
    IN /\ Takes(w) /\ Budget
       /\ \/ /\ wk' = wk
             /\ last' = Reply(op, cache_key, "RedisGetError", PyNone)
          \/ /\ cached_results.kind = "raised"
             /\ wk' = wk
             /\ last' = Reply(op, cache_key, cached_results.error, PyNone)
          \/ /\ cached_results.kind # "raised"
             /\ wk' = SetJob(w, job)
             /\ last' = WorkerStep
       /\ UNCHANGED <<redis, pg, neo4j, ck>>

\* increment_cache_metric: the hit counter, and the return of the cached
\* value, when get_json returned a value; the miss counter otherwise.
CacheAside_increment_cache_metric(w) ==
    LET job == wk.job[w]
        hit == job.held # PyNone
        metric == IF hit THEN HitMetric[job.kind] ELSE MissMetric[job.kind]
        after == [job EXCEPT !.counted = @ + 1]
        counted == [wk EXCEPT !.counted = Tally(@, "cache_metrics:" \o metric, 1)]
    IN /\ job.kind \in DOMAIN HitMetric /\ job.pc = "incr"
       /\ \/ /\ redis' = redis
             /\ wk' = SetJob(w, IdleJob)
             /\ last' = Done(job, "RedisIncrError", PyNone)
          \/ /\ hit
             /\ redis' = RedisClient_increment_cache_metric(redis, metric)
             /\ wk' = [counted EXCEPT !.job = [@ EXCEPT ![w] = IdleJob]]
             /\ last' = Done(after, "ok", job.held)
          \/ /\ ~hit
             /\ redis' = RedisClient_increment_cache_metric(redis, metric)
             /\ wk' = [counted EXCEPT !.job = [@ EXCEPT ![w] = [after EXCEPT !.pc = "query"]]]
             /\ last' = WorkerStep
       /\ UNCHANGED <<pg, neo4j, ck>>

search_cache_key(a) ==
    Join(<<"search",
           IF given(a.query) THEN Val(a.query) ELSE "all",
           IF given(a.category_id) THEN Val(a.category_id) ELSE "all",
           IF a.min_price # None THEN "minp" \o FloatStr(Val(a.min_price)) ELSE "any",
           IF a.max_price # None THEN "maxp" \o FloatStr(Val(a.max_price)) ELSE "any",
           "limit" \o ToString(a.limit)>>, ":")

\* SELECT id, name, price, category_id FROM products WHERE ... LIMIT %s
search_rows(db, a) ==
    LET Keep(p) ==
            /\ given(a.query) =>
                   Matches(to_tsvector(p), websearch_to_tsquery(Val(a.query)))
            /\ given(a.category_id) => ProductCategory[p] = Val(a.category_id)
            /\ PriceOk(db, p, a.min_price, a.max_price)
        Row(p) == PyDict([id |-> p, price |-> db.products[p],
                          category_id |-> ProductCategory[p]])
        ids == Take(RowsWhere(db, {p \in DOMAIN db.products : Keep(p)}), a.limit)
    IN PyList([n \in 1..Len(ids) |-> Row(ids[n])])

ProductService_search_products(w, a) ==
    CacheAside(w, "search", search_cache_key(a), a)

\* --------------------------------------------------------- search_service

\* hashlib.md5(...).hexdigest(): a digest, taken to be free of collisions.
md5_hexdigest(text) == "md5<" \o text \o ">"

\* The rank of a parameter name in the order sorted() gives.
NameRank ==
    [n \in {"category", "max_price", "min_price", "query", "top_k"} |->
        CASE n = "category" -> 1 [] n = "max_price" -> 2 [] n = "min_price" -> 3
          [] n = "query" -> 4 [] OTHER -> 5]

RECURSIVE InsertItem(_, _)
InsertItem(sorted, item) ==
    IF sorted = << >> THEN <<item>>
    ELSE IF NameRank[item[1]] < NameRank[Head(sorted)[1]] THEN <<item>> \o sorted
    ELSE <<Head(sorted)>> \o InsertItem(Tail(sorted), item)

\* Mutant: the items are left in insertion order.
sorted_items_unsorted(items) == items

\* sorted(params.items())
RECURSIVE sorted_items(_)
sorted_items(items) ==
    IF items = << >> THEN << >>
    ELSE InsertItem(sorted_items(SubSeq(items, 1, Len(items) - 1)),
                    items[Len(items)])

\* params: the (name, str(value)) pairs of a dict, in insertion order.
SemanticSearchService_generate_cache_key(params) ==
    LET sorted_params == sorted_items(params)
        param_string ==
            Join([n \in 1..Len(sorted_params) |->
                     sorted_params[n][1] \o "=" \o sorted_params[n][2]], "&")
    IN "semantic_search:" \o md5_hexdigest(param_string)

\* search_params without the entries whose value is None.
active_params(a) ==
    <<<<"query", a.query>>>>
    \o (IF a.category # None THEN <<<<"category", Val(a.category)>>>> ELSE << >>)
    \o (IF a.min_price # None
        THEN <<<<"min_price", FloatStr(Val(a.min_price))>>>> ELSE << >>)
    \o (IF a.max_price # None
        THEN <<<<"max_price", FloatStr(Val(a.max_price))>>>> ELSE << >>)
    \o <<<<"top_k", ToString(a.top_k)>>>>

\* SELECT ... 1 - (pe.embedding <=> %s) AS similarity FROM products p JOIN
\* product_embeddings pe ON p.id = pe.product_id ... ORDER BY similarity
\* DESC LIMIT %s: the rows of the products that have an embedding.
semantic_rows(db, a) ==
    LET Keep(p) ==
            /\ p \in db.product_embeddings
            /\ given(a.category) => CategoryName[ProductCategory[p]] = Val(a.category)
            /\ PriceOk(db, p, a.min_price, a.max_price)
        Row(p) == PyDict([id |-> p, price |-> db.products[p],
                          similarity |-> Some(QuerySimilarity[p])])
        kept == RowsWhere(db, {p \in DOMAIN db.products : Keep(p)})
        ids == Take(OrderByDesc(kept, QuerySimilarity), a.top_k)
    IN PyList([n \in 1..Len(ids) |-> Row(ids[n])])

SemanticSearchService_natural_language_search(w, a) ==
    CacheAside(w, "semantic",
               SemanticSearchService_generate_cache_key(active_params(a)), a)

\* (SELECT embedding FROM target_embedding): NULL when the product has no
\* row in product_embeddings, and every similarity is NULL then.
target_similarity(db, product_id, p) ==
    IF product_id \in db.product_embeddings THEN Some(ProductSimilarity[p]) ELSE None

\* Mutant: the query does not exclude the product itself.
similar_rows_with_self(db, product_id, top_k) ==
    LET Keep(p) == p \in db.product_embeddings
        Row(p) == PyDict([id |-> p, price |-> db.products[p],
                          similarity |-> target_similarity(db, product_id, p)])
        kept == RowsWhere(db, {p \in DOMAIN db.products : Keep(p)})
        ids == Take(OrderByDesc(kept, ProductSimilarity), top_k)
    IN PyList([n \in 1..Len(ids) |-> Row(ids[n])])

\* SELECT ... FROM products p JOIN product_embeddings pe ON p.id =
\* pe.product_id ... WHERE p.id != %s ORDER BY similarity DESC LIMIT %s
similar_rows(db, product_id, top_k) ==
    LET Keep(p) == p # product_id /\ p \in db.product_embeddings
        Row(p) == PyDict([id |-> p, price |-> db.products[p],
                          similarity |-> target_similarity(db, product_id, p)])
        kept == RowsWhere(db, {p \in DOMAIN db.products : Keep(p)})
        ids == Take(OrderByDesc(kept, ProductSimilarity), top_k)
    IN PyList([n \in 1..Len(ids) |-> Row(ids[n])])

\* Mutant: the key is built under the prefix of the product entries.
similar_cache_key_product_prefix(product_id, top_k) ==
    "product:" \o product_id \o ":" \o ToString(top_k)

\* f"similar_products:{product_id}:{top_k}"
similar_cache_key(product_id, top_k) ==
    "similar_products:" \o product_id \o ":" \o ToString(top_k)

SemanticSearchService_find_similar_products(w, product_id, top_k) ==
    CacheAside(w, "similar", similar_cache_key(product_id, top_k),
               <<product_id, top_k>>)

\* The query of a list lookup, by its handler.
lookup_rows(db, op, args) ==
    CASE op = "search" -> search_rows(db, args)
      [] op = "semantic" -> semantic_rows(db, args)
      [] OTHER -> similar_rows(db, args[1], args[2])

\* Mutant: a query that raises leaves an empty result in the cache.
CacheAside_query_caches_failure(w) ==
    LET job == [wk.job[w] EXCEPT !.queried = TRUE]
    IN /\ wk.job[w].kind \in DOMAIN HitMetric /\ wk.job[w].pc = "query"
       /\ redis' = RedisClient_set_json(redis, job.key, PyList(<< >>), CACHE_TTL)
       /\ wk' = SetJob(w, IdleJob)
       /\ last' = Done(job, "PostgresError", PyNone)
       /\ UNCHANGED <<pg, neo4j, ck>>

\* On a miss: the query against the Record Store in its get_cursor block.
\* natural_language_search first computes the embedding of the query text,
\* which may raise before any query is sent.
CacheAside_query(w) ==
    LET job == [wk.job[w] EXCEPT !.queried = TRUE]
    IN /\ wk.job[w].kind \in DOMAIN HitMetric /\ wk.job[w].pc = "query"
       /\ \/ /\ wk.job[w].kind = "semantic"
             /\ wk' = SetJob(w, IdleJob)
             /\ last' = Done(wk.job[w], "EmbeddingError", PyNone)
          \/ /\ wk' = SetJob(w, IdleJob)
             /\ last' = Done(job, "PostgresError", PyNone)
          \/ /\ wk' = SetJob(w, [job EXCEPT !.held = lookup_rows(pg, job.kind, job.args),
                                           !.pc = "setex"])
             /\ last' = WorkerStep
       /\ UNCHANGED <<redis, pg, neo4j, ck>>

\* redis_client.set_json(cache_key, results), and the return.
CacheAside_set_json(w) ==
    LET job == wk.job[w]
    IN /\ job.kind \in DOMAIN HitMetric /\ job.pc = "setex"
       /\ \/ /\ redis' = redis
             /\ last' = Done(job, "RedisSetError", PyNone)
          \/ /\ redis' = RedisClient_set_json(redis, job.key, job.held, CACHE_TTL)
             /\ last' = Done(job, "ok", job.held)
       /\ wk' = SetJob(w, IdleJob)
       /\ UNCHANGED <<pg, neo4j, ck>>

\* The calls that are followed.
SearchCalls ==
    {[query |-> None, category_id |-> None, min_price |-> None,
      max_price |-> None, limit |-> 20],
     [query |-> Some("all"), category_id |-> None, min_price |-> None,
      max_price |-> None, limit |-> 20],
     [query |-> Some("bowl"), category_id |-> None, min_price |-> None,
      max_price |-> Some(600), limit |-> 20]}

SemanticCalls ==
    {[query |-> "gift", category |-> None, min_price |-> None,
      max_price |-> None, top_k |-> 10],
     [query |-> "gift", category |-> Some("Home"), min_price |-> None,
      max_price |-> Some(600), top_k |-> 10]}

SimilarCalls == {<<"P1", 5>>, <<"P2", 5>>}

\* ----------------------------------------------------------- hot products

\* The order of member names as byte strings.
MemberRank == [p \in Products |-> IF p = "P1" THEN 1 ELSE 2]

\* a stands before b in the sorted set read from the highest score down:
\* higher score first, equal scores in descending order of the names.
Outranks(r, a, b) ==
    \/ r.hot[a] > r.hot[b]
    \/ r.hot[a] = r.hot[b] /\ MemberRank[a] > MemberRank[b]

RECURSIVE ByScoreDesc(_, _)
ByScoreDesc(r, members) ==
    IF members = {} THEN << >>
    ELSE LET top == CHOOSE a \in members :
                        \A b \in members \ {a} : Outranks(r, a, b)
         IN <<<<top, r.hot[top]>>>> \o ByScoreDesc(r, members \ {top})

\* Mutant: the range is read from the lowest score up.
RECURSIVE ByScoreAsc(_, _)
ByScoreAsc(r, members) ==
    IF members = {} THEN << >>
    ELSE LET low == CHOOSE a \in members :
                        \A b \in members \ {a} : Outranks(r, b, a)
         IN <<<<low, r.hot[low]>>>> \o ByScoreAsc(r, members \ {low})

\* The elements of all from index start to index stop (0-based, inclusive; a
\* negative index counts from the end).
IndexRange(all, start, stop) ==
    LET n == Len(all)
        lo == IF start < 0 THEN (IF n + start < 0 THEN 0 ELSE n + start) ELSE start
        hi == IF stop < 0 THEN n + stop ELSE (IF stop > n - 1 THEN n - 1 ELSE stop)
    IN IF lo > hi THEN << >> ELSE SubSeq(all, lo + 1, hi + 1)

ZREVRANGE_ascending(r, start, stop) ==
    IndexRange(ByScoreAsc(r, DOMAIN r.hot), start, stop)

\* ZREVRANGE hot_products start stop WITHSCORES
ZREVRANGE(r, start, stop) ==
    IndexRange(ByScoreDesc(r, DOMAIN r.hot), start, stop)

\* The top_n arguments that are followed.
TopNs == {0, 1, 10}

\* get_hot_products(top_n): zrevrange(hot_products, 0, top_n - 1).
RedisClient_get_hot_products(top_n) ==
    /\ \/ last' = Reply("hot", ToString(top_n), "ok",
                         PyList(ZREVRANGE(redis, 0, top_n - 1)))
       \/ last' = Reply("hot", ToString(top_n), "RedisError", PyNone)
    /\ UNCHANGED <<redis, pg, neo4j, ck, wk>>

\* ------------------------------------------------------- the cache keys
\* The key builders applied to raw arguments; last holds the namespace, the
\* key and, for a fingerprint, the dict it was built from.

\* Strings a caller passes as product id, query or category.
RawStrings ==
    {"P1", "P1:5", "all", "product:P1", "similar_products:P1:5",
     "search:all:all:any:any:limit20", "semantic_search:md5<query=gift&top_k=10>"}

\* The (name, str(value)) pairs a dict of search parameters is made of.
ParamItems ==
    {<<"query", "gift">>, <<"category", "Home">>, <<"min_price", "5.0">>,
     <<"max_price", "6.0">>, <<"top_k", "10">>,
     <<"category", "Home&max_price=6.0">>}

\* The dicts over ParamItems: every subset with one value for a name, in
\* every insertion order.
ParamDicts ==
    UNION {{f \in [1..Cardinality(S) -> S] :
               \A m, n \in 1..Cardinality(S) : f[m] = f[n] => m = n}
           : S \in {T \in SUBSET ParamItems :
                       \A x, y \in T : x[1] = y[1] => x = y}}

SearchArgs ==
    [query : {None} \cup {Some(x) : x \in RawStrings},
     category_id : {None} \cup {Some(x) : x \in {"all", "P1", "5:all"}},
     min_price : {None}, max_price : {None, Some(500)}, limit : {20}]

TopKs == {5, 10}

Key_product(product_id) ==
    /\ last' = Reply("product", product_cache_key(product_id), "ok", PyNone)
    /\ UNCHANGED <<redis, pg, neo4j, ck, wk>>

Key_search(a) ==
    /\ last' = Reply("search", search_cache_key(a), "ok", PyNone)
    /\ UNCHANGED <<redis, pg, neo4j, ck, wk>>

Key_semantic(params) ==
    /\ last' = Reply("semantic", SemanticSearchService_generate_cache_key(params),
                     "ok", PyList(params))
    /\ UNCHANGED <<redis, pg, neo4j, ck, wk>>

Key_similar(product_id, top_k) ==
    /\ last' = Reply("similar", similar_cache_key(product_id, top_k), "ok", PyNone)
    /\ UNCHANGED <<redis, pg, neo4j, ck, wk>>

\* ------------------------------------------------ Neo4jClient (queries)

Neo4jRows(ids) == PyList([n \in 1..Len(ids) |-> PyDict([product_id |-> ids[n]])])

\* WITH x, count(...) AS frequency ORDER BY frequency DESC: the products that
\* have a row, most frequent first; Cypher leaves the order of equal counts
\* open.
OrderedByCount(rows_of) ==
    LET found == {x \in Products : rows_of[x] # {}}
    IN {ids \in [1..Cardinality(found) -> found] :
           /\ \A m, n \in 1..Cardinality(found) : ids[m] = ids[n] => m = n
           /\ \A m, n \in 1..Cardinality(found) :
                  m < n => Cardinality(rows_of[ids[m]]) >= Cardinality(rows_of[ids[n]])}

\* MATCH (target)-[:PURCHASED]->(p)<-[:PURCHASED]-(other)
\* MATCH (other)-[:PURCHASED]->(rec) WHERE NOT (target)-[:PURCHASED]->(rec):
\* the rows of each rec.  The two relationships of the first pattern are two
\* different relationships.
recommendation_rows(g, user_id) ==
    [rec \in Products |->
        {<<e1, e2, e3>> \in g.purchased \X g.purchased \X g.purchased :
            /\ e1.user_id = user_id
            /\ e2.product_id = e1.product_id /\ e2 # e1
            /\ e3.user_id = e2.user_id /\ e3.product_id = rec
            /\ ~\E e \in g.purchased : e.user_id = user_id /\ e.product_id = rec}]

\* MATCH (:Product {id})<-[:PURCHASED]-(u)-[:PURCHASED]->(other)
\* WHERE other.id <> $product_id: the rows of each other.
also_bought_rows(g, product_id) ==
    [other \in Products |->
        {<<e1, e2>> \in g.purchased \X g.purchased :
            /\ e1.product_id = product_id
            /\ e2.user_id = e1.user_id /\ e2 # e1
            /\ e2.product_id = other
            /\ other # product_id}]

Limits == {1, 5}

PurchaseDates == {1}

\* add_purchase as the checkout and the purchase generator call it.
Neo4jClient_add_purchase_call(user_id, product_id, quantity, date) ==
    /\ Cardinality(SameEdges(neo4j, user_id, product_id, quantity, date))
           < MaxSameEdges
    /\ \/ /\ neo4j' = Neo4jClient_add_purchase(neo4j, user_id, product_id, quantity, date)
          /\ last' = Call("purchase", "ok")
       \/ /\ neo4j' = neo4j
          /\ last' = Call("purchase", "Neo4jError")
    /\ UNCHANGED <<redis, pg, ck, wk>>

Neo4jClient_get_recommendations(user_id, limit) ==
    /\ \/ \E ids \in OrderedByCount(recommendation_rows(neo4j, user_id)) :
             last' = Reply("recommend", user_id, "ok", Neo4jRows(Take(ids, limit)))
       \/ last' = Reply("recommend", user_id, "Neo4jError", PyNone)
    /\ UNCHANGED <<redis, pg, neo4j, ck, wk>>

Neo4jClient_get_also_bought_products(product_id, limit) ==
    /\ \/ \E ids \in OrderedByCount(also_bought_rows(neo4j, product_id)) :
             last' = Reply("also_bought", product_id, "ok", Neo4jRows(Take(ids, limit)))
       \/ last' = Reply("also_bought", product_id, "Neo4jError", PyNone)
    /\ UNCHANGED <<redis, pg, neo4j, ck, wk>>

\* ------------------------------------------------- the cart hash as text
\* Redis keeps the value of a hash field as a text.  redis.hashes above holds,
\* for a quantity the services wrote, the integer whose decimal form that text
\* is.  Here the fields hold the texts themselves, so that a field written by
\* another client can hold any text, and get_cart converts each one.

\* The texts a field is given: str(quantity) of update_cart_item_quantity, and
\* what another client may leave: <<11, 51>> is "\x0b3", <<133, 51, 160>> is
\* "3" between U+0085 and U+00A0, <<1635>> is the Arabic-Indic digit three,
\* <<65297, 1634>> a fullwidth one and an Arabic-Indic two, <<28, 51>> is
\* "\x1c3", <<8722, 51>> is "3" after the minus sign U+2212 and <<51, 0>> is
\* "3\x00".
RawQuantities ==
    {Text(<<"2">>), Text(<<"1", "2">>), Text(<<"0">>), Text(<<"-", "1">>),
     Text(<<" ", "3", " ">>), Text(<<"+", "4">>), Text(<<"1", "_", "0">>),
     Text(<<"0", "0", "7">>), Text(<<"2", "\n">>), Text(<<"3", "\r">>),
     Text(<<"3", "\f">>), <<11, 51>>, <<133, 51, 160>>, <<1635>>,
     <<65297, 1634>>, <<45, 1635>>,
     Text(<<"a", "b", "c">>), Text(<<"1", ".", "5">>), << >>,
     Text(<<"1", "_", "_", "0">>), Text(<<"_", "1">>), Text(<<"-", " ", "1">>),
     Text(<<"3", " ", "4">>), Text(<<"+">>), Text(<<"1", "e", "3">>),
     <<28, 51>>, <<8722, 51>>, <<51, 0>>}

RawUsers == {"U1"}

StoredQuantities == {1, 2, 12}

\* Mutant: a quantity int() rejects is returned as 0.
get_cart_keeps_invalid(r, user_id) ==
    LET cart_data == HGETALL(r, get_cart_key(user_id))
    IN [product \in DOMAIN cart_data |-> py_int(cart_data[product]).n]

\* get_cart over the texts: int() of every field of the hash; a field whose
\* text int() rejects is skipped with a warning.
get_cart_decoded(r, user_id) ==
    LET cart_data == HGETALL(r, get_cart_key(user_id))
        parsed == [product \in DOMAIN cart_data |-> py_int(cart_data[product])]
    IN [product \in {f \in DOMAIN cart_data : parsed[f].ok} |-> parsed[product].n]

get_cart_warns(r, user_id) ==
    LET cart_data == HGETALL(r, get_cart_key(user_id))
    IN \E product \in DOMAIN cart_data : ~py_int(cart_data[product]).ok

\* CartService.get_cart: the decoded cart, or the error of HGETALL.
CartService_get_cart(user_id) ==
    LET reply == Reply("get", get_cart_key(user_id), "ok",
                       PyDict(get_cart_decoded(redis, user_id)))
    IN /\ \/ last' = (IF get_cart_warns(redis, user_id) THEN Warned(reply) ELSE reply)
          \/ last' = Reply("get", get_cart_key(user_id), "RedisError", PyNone)
       /\ UNCHANGED <<redis, pg, neo4j, ck, wk>>

\* update_cart_item_quantity over the texts, first command: HSET of
\* str(quantity); its EXPIRE follows as a step of its own.
Text_update_cart_item_quantity(w, user_id, product_id, quantity) ==
    /\ Takes(w)
    /\ \/ /\ redis' = HSET(redis, get_cart_key(user_id), product_id, str_int(quantity))
          /\ wk' = SetJob(w, ExpireJob("update", user_id))
          /\ last' = WorkerStep
       \/ /\ redis' = redis /\ wk' = wk
          /\ last' = Call("update", "RedisError")
    /\ UNCHANGED <<pg, neo4j, ck>>

\* Another client of the Fast Store sets a field of a cart.
Cart_write_raw(user_id, product_id, text) ==
    /\ redis' = HSET(redis, get_cart_key(user_id), product_id, text)
    /\ last' = Call("raw", "ok")
    /\ UNCHANGED <<pg, neo4j, ck, wk>>


\* ------------------------------------------------------- specifications

Init ==
    /\ redis = [hashes |-> EmptyMap, strings |-> EmptyMap, counters |-> EmptyMap,
                hot |-> EmptyMap, ttl |-> EmptyMap]
    /\ pg = [products |-> [p \in {"P1"} |-> CatalogPrice[p]],
             orders |-> {}, order_items |-> {}, product_embeddings |-> {"P1"}]
    /\ neo4j = [users |-> Users, products |-> Products, purchased |-> {},
                viewed |-> EmptyMap]
    /\ ck = [i \in Invocations |-> IdleCk]
    /\ last = Call("init", "ok")
    /\ wk = [job |-> [w \in Workers |-> IdleJob], tallied |-> FALSE,
             reads |-> EmptyMap, counted |-> EmptyMap, added |-> EmptyMap,
             loader |-> IdleLoader]

\* The same, with the history of the calls kept.
InitTallied ==
    /\ redis = [hashes |-> EmptyMap, strings |-> EmptyMap, counters |-> EmptyMap,
                hot |-> EmptyMap, ttl |-> EmptyMap]
    /\ pg = [products |-> [p \in {"P1"} |-> CatalogPrice[p]],
             orders |-> {}, order_items |-> {}, product_embeddings |-> {"P1"}]
    /\ neo4j = [users |-> Users, products |-> Products, purchased |-> {},
                viewed |-> EmptyMap]
    /\ ck = [i \in Invocations |-> IdleCk]
    /\ last = Call("init", "ok")
    /\ wk = [job |-> [w \in Workers |-> IdleJob], tallied |-> TRUE,
             reads |-> EmptyMap, counted |-> EmptyMap, added |-> EmptyMap,
             loader |-> IdleLoader]

\* The adds that are followed next to the checkouts: one at a time, while a
\* checkout is under way or still to come.
AddNext ==
    \/ \E u \in Buyers, p \in Products, q \in {1, 2} :
          /\ \E i \in Invocations : ck[i].pc # "done"
          /\ CartService_add_to_cart("W1", u, p, q)
    \/ RedisClient_add_to_cart_expire("W1")

\* The cart calls.  The adds and setQuantity calls that are followed run one
\* at a time, on thread "W1"; the commands of other clients (remove, clear)
\* and the passage of time fall between their two commands.  Adds that
\* overlap are followed in SpecWorkers.
CartNext ==
    \/ \E u \in Users, p \in Products, q \in Quantities :
          CartService_add_to_cart("W1", u, p, q)
    \/ RedisClient_add_to_cart_expire("W1")
    \/ \E u \in Users, p \in Products, q \in Quantities :
          CartService_update_item_quantity("W1", u, p, q)
    \/ RedisClient_update_cart_item_quantity_expire("W1")
    \/ \E u \in Users, p \in Products : CartService_remove_from_cart(u, p)
    \/ \E u \in Users : CartService_clear_cart(u)

CheckoutNext ==
    \/ \E i \in Invocations, u \in Buyers : Checkout_get_cart(i, u)
    \/ \E i \in Invocations : Checkout_select_prices(i)
    \/ \E i \in Invocations : Checkout_commit(i)
    \/ \E i \in Invocations, p \in Products : Checkout_add_purchase(i, p)
    \/ \E i \in Invocations : Checkout_clear_cart(i)
    \/ \E p \in Products : Loader_load_product(p)

Next == AddNext \/ CheckoutNext

\* The cart store and the checkout saga.
Spec == Init /\ [][Next]_vars

\* The cart store under the passage of time.
SpecCart == Init /\ [][CartNext \/ Tick]_vars

\* The price changes that are followed: those made while a checkout is
\* between its SELECT and its commit, or after an Order exists.
PriceNext ==
    /\ pg.orders # {} \/ \E i \in Invocations : ck[i].pc = "insert"
    /\ \E p \in Repriced : Products_set_price(p, RaisedPrice[p])

\* The checkouts that are followed over changing prices run one after the
\* other.
OneAtATime(i) == \A j \in Invocations : j # i => ck[j].pc \in {"idle", "done"}

\* order_id = str(uuid.uuid4()): the id of a generated order is a new one.
FreshOrderId(order_id) == \A o \in pg.orders : o.id # order_id

\* No checkout is between its cart read and its end.
NoCheckout == \A i \in Invocations : ck[i].pc \in {"idle", "done"}

\* The adds that are followed fill the cart before a checkout that is still
\* to come, and the generated orders that are followed are loaded between
\* the checkouts.
OrdersNext ==
    \/ \E u \in Buyers, p \in Products, q \in Quantities :
          /\ NoCheckout /\ \E i \in Invocations : ck[i].pc = "idle"
          /\ CartService_add_to_cart("W1", u, p, q)
    \/ RedisClient_add_to_cart_expire("W1")
    \/ \E i \in Invocations, u \in Buyers :
          OneAtATime(i) /\ Checkout_get_cart(i, u)
    \/ \E i \in Invocations : Checkout_select_prices(i)
    \/ \E i \in Invocations : Checkout_commit(i)
    \/ \E i \in Invocations, p \in Products : Checkout_add_purchase(i, p)
    \/ \E i \in Invocations : Checkout_clear_cart(i)
    \/ \E p \in Products : Loader_load_product(p)
    \/ PriceNext
    \/ \E order_id \in GeneratedOrderIds, u \in Buyers, lines \in GeneratedPurchases :
          NoCheckout /\ FreshOrderId(order_id)
              /\ PurchaseGenerator_load_into_postgres(order_id, u, lines)

\* The checkout saga and the purchase generator over a catalog whose prices
\* change.
SpecOrders == Init /\ [][OrdersNext]_vars

\* The commands a list lookup sends after its GET.
CacheAsideSteps ==
    \/ \E w \in Workers : CacheAside_increment_cache_metric(w)
    \/ \E w \in Workers : CacheAside_query(w)
    \/ \E w \in Workers : CacheAside_set_json(w)

\* The commands a product read sends after its GET, add_view apart.
ProductSteps ==
    \/ \E w \in Workers : get_product_by_id_query(w)
    \/ \E w \in Workers : get_product_by_id_set_json(w)
    \/ \E w \in Workers : get_product_by_id_increment_score(w)
    \/ \E w \in Workers : get_product_from_cache_exists(w)

\* The lookups that are followed: both products, the keyword searches
\* without a price bound, both semantic searches and one similar-products
\* lookup.
FollowedSearches == {a \in SearchCalls : a.max_price = None}

FollowedSimilars == {c \in SimilarCalls : c[1] = "P2"}

\* The overlapping lookups that are followed are those of one key: a thread
\* takes a lookup while the other thread is in a lookup of the same key.
Races(w, key) == \A v \in Workers \ {w} : Busy(v) => wk.job[v].key = key

CacheNext ==
    \/ \E w \in Workers, p \in Products :
          Races(w, product_cache_key(p)) /\ ProductService_get_product_by_id(w, p, None)
    \/ \E w \in Workers, a \in FollowedSearches :
          Races(w, search_cache_key(a)) /\ ProductService_search_products(w, a)
    \/ \E w \in Workers, a \in SemanticCalls :
          /\ Races(w, SemanticSearchService_generate_cache_key(active_params(a)))
          /\ SemanticSearchService_natural_language_search(w, a)
    \/ \E w \in Workers, c \in FollowedSimilars :
          /\ Races(w, similar_cache_key(c[1], c[2]))
          /\ SemanticSearchService_find_similar_products(w, c[1], c[2])
    \/ ProductSteps
    \/ CacheAsideSteps
    \/ \E p \in Products : Loader_load_product(p)
    \/ Tick

\* The cache layer over a catalog that is being loaded.
SpecCache == Init /\ [][CacheNext]_vars

EmbedNext ==
    \/ \E a \in SemanticCalls : SemanticSearchService_natural_language_search("W1", a)
    \/ \E c \in SimilarCalls :
          SemanticSearchService_find_similar_products("W1", c[1], c[2])
    \/ CacheAsideSteps
    \/ \E p \in Products : Loader_load_product(p)
    \/ \E product_ids \in Batches : VectorLoader_store_embeddings_batch(product_ids)
    \/ Tick

\* The semantic lookups over a catalog whose products and embeddings are
\* being loaded.
SpecEmbed == Init /\ [][EmbedNext]_vars

\* The texts another writer leaves under a cache key: one json.loads rejects
\* with JSONDecodeError, the empty text, and one nested too deep.
DamagedTexts == {Malformed, EmptyText, TooDeep}

\* The JSON texts {}, 0, "" and false, which json.loads accepts.
ForeignTexts ==
    {json_dumps(PyDict(EmptyMap)), json_dumps(PyInt(0)), json_dumps(PyStr("")),
     json_dumps(PyBool(FALSE))}

\* The entry under key was written by a lookup.
WrittenByLookup(key) ==
    /\ redis.strings[key].loads = "value"
    /\ \/ redis.strings[key].value.kind = "list"
       \/ /\ redis.strings[key].value.kind = "dict"
          /\ truthy(redis.strings[key].value)

\* Another writer of the Fast Store leaves a text under an existing cache key.
Cache_corrupt(key, text) ==
    /\ key \in DOMAIN redis.strings
    /\ WrittenByLookup(key)
    /\ redis' = [redis EXCEPT !.strings = Put(@, key, text)]
    /\ last' = Call("corrupt", "ok")
    /\ UNCHANGED <<pg, neo4j, ck, wk>>

\* The lookups that are followed over damaged entries: one of each kind.
DamagedProducts == {"P1"}

DamagedSearches == {a \in SearchCalls : a.max_price # None}

DamagedSemantics == {a \in SemanticCalls : a.category = None}

CorruptNext ==
    \/ \E p \in DamagedProducts : ProductService_get_product_by_id("W1", p, None)
    \/ \E a \in DamagedSearches : ProductService_search_products("W1", a)
    \/ \E a \in DamagedSemantics :
          SemanticSearchService_natural_language_search("W1", a)
    \/ \E c \in FollowedSimilars :
          SemanticSearchService_find_similar_products("W1", c[1], c[2])
    \/ ProductSteps
    \/ CacheAsideSteps
    \/ \E p \in Products : Loader_load_product(p)
    \/ \E key \in DOMAIN redis.strings, text \in DamagedTexts : Cache_corrupt(key, text)
    \/ \E p \in DamagedProducts, text \in ForeignTexts :
          Cache_corrupt(product_cache_key(p), text)
    \/ Tick

\* The cache layer with entries that are damaged behind its back.
SpecCorrupt == Init /\ [][CorruptNext]_vars

RawNext ==
    \/ \E u \in RawUsers, p \in Products, q \in StoredQuantities :
          Text_update_cart_item_quantity("W1", u, p, q)
    \/ RedisClient_update_cart_item_quantity_expire("W1")
    \/ \E u \in RawUsers, p \in Products, text \in RawQuantities :
          Cart_write_raw(u, p, text)
    \/ \E u \in RawUsers : CartService_get_cart(u)
    \/ \E u \in RawUsers, p \in Products : CartService_remove_from_cart(u, p)
    \/ \E u \in RawUsers : CartService_clear_cart(u)

\* A cart whose fields hold texts, read by get_cart.
SpecRaw == Init /\ [][RawNext]_vars

\* The cart that is turned into an Order next to the graph queries: one
\* line of a product that has a row in products, checked out once.  The
\* generated purchases and the queries that are followed fall before and
\* after that checkout, the statements of the graph loader anywhere.
GraphCart == {"P1"}

GraphNext ==
    \/ \E u \in Buyers, p \in GraphCart :
          /\ ck[1].pc = "idle" /\ RedisClient_get_cart(redis, u) = EmptyMap
          /\ CartService_add_to_cart("W1", u, p, 1)
    \/ RedisClient_add_to_cart_expire("W1")
    \/ \E u \in Buyers : Checkout_get_cart(1, u)
    \/ Checkout_select_prices(1)
    \/ Checkout_commit(1)
    \/ \E p \in Products : Checkout_add_purchase(1, p)
    \/ Checkout_clear_cart(1)
    \/ \E u \in Users, p \in Products, date \in PurchaseDates :
          NoCheckout /\ Neo4jClient_add_purchase_call(u, p, 1, date)
    \/ \E u \in Users, limit \in Limits :
          NoCheckout /\ Neo4jClient_get_recommendations(u, limit)
    \/ \E p \in Products, limit \in Limits :
          NoCheckout /\ Neo4jClient_get_also_bought_products(p, limit)
    \/ GraphLoader_clear_database
    \/ GraphLoader_load_users
    \/ GraphLoader_load_products_and_relationships
    \/ GraphLoader_load_products_and_relationships_belongs_to

\* The queries of the Relationship Store over a graph of purchases that the
\* checkout and the purchase generator write and the graph loader clears
\* and loads.
SpecGraph == Init /\ [][GraphNext]_vars

\* The generated orders that are loaded next to the other transactions.
TxPurchases == {<<Line("P1", 1), Line("P2", 2)>>}

\* Every writer of the Record Store: the checkouts, one after the other, the
\* relational loader, the vector loader and the purchase generator.
\* The adds that are followed put a product into the cart once.
TxNext ==
    \/ \E u \in Buyers, p \in Products :
          /\ NoCheckout /\ \E i \in Invocations : ck[i].pc = "idle"
          /\ p \notin DOMAIN RedisClient_get_cart(redis, u)
          /\ CartService_add_to_cart("W1", u, p, 1)
    \/ RedisClient_add_to_cart_expire("W1")
    \/ \E i \in Invocations, u \in Buyers :
          OneAtATime(i) /\ Checkout_get_cart(i, u)
    \/ \E i \in Invocations : Checkout_select_prices(i)
    \/ \E i \in Invocations : Checkout_commit(i)
    \/ \E i \in Invocations, p \in Products : Checkout_add_purchase(i, p)
    \/ \E i \in Invocations : Checkout_clear_cart(i)
    \/ \E p \in Products : Loader_load_product(p)
    \/ \E product_ids \in Batches : VectorLoader_store_embeddings_batch(product_ids)
    \/ \E order_id \in GeneratedOrderIds, u \in Buyers, lines \in TxPurchases :
          NoCheckout /\ FreshOrderId(order_id)
              /\ PurchaseGenerator_load_into_postgres(order_id, u, lines)

\* The scoped transactions of the Record Store.
SpecTx == Init /\ [][TxNext]_vars

\* The user and the semantic search of the calls whose history is kept.
WorkerUser == "U1"

\* The user_id arguments of the product reads: none, and the user.
Viewers == {None, Some(WorkerUser)}

WorkerSearches == {a \in SemanticCalls : a.category = None}

WorkersNext ==
    \/ \E w \in Workers, p \in Products, q \in {1, 2} :
          CartService_add_to_cart(w, WorkerUser, p, q)
    \/ \E w \in Workers : RedisClient_add_to_cart_expire(w)
    \/ \E w \in Workers, p \in Products, user_id \in Viewers :
          ProductService_get_product_by_id(w, p, user_id)
    \/ \E w \in Workers : get_product_by_id_add_view(w)
    \/ \E w \in Workers, a \in WorkerSearches :
          SemanticSearchService_natural_language_search(w, a)
    \/ ProductSteps
    \/ CacheAsideSteps

\* The threads running handlers concurrently, command by command, with the
\* history of what their calls did.
SpecWorkers == InitTallied /\ [][WorkersNext]_vars

HotNext ==
    \/ \E w \in Workers, p \in Products, user_id \in Viewers :
          ProductService_get_product_by_id(w, p, user_id)
    \/ \E w \in Workers : get_product_by_id_add_view(w)
    \/ ProductSteps
    \/ \E top_n \in TopNs : RedisClient_get_hot_products(top_n)
    \/ \E p \in Products : Loader_load_product(p)

\* Product reads and the ranking read.
SpecHot == Init /\ [][HotNext]_vars

KeysNext ==
    \/ \E product_id \in RawStrings : Key_product(product_id)
    \/ \E a \in SearchArgs : Key_search(a)
    \/ \E params \in ParamDicts : Key_semantic(params)
    \/ \E product_id \in RawStrings, top_k \in TopKs : Key_similar(product_id, top_k)

\* The cache keys of the four namespaces over raw arguments.
SpecKeys == Init /\ [][KeysNext]_vars
\* ================================================================ claims

OrderRows(i) == {o \in pg.orders : o.id = i}

ItemRows(i) == {it \in pg.order_items : it.order_id = i}

EdgesOf(i) == {e \in neo4j.purchased : e.date = i}

CartOf(r, user_id) == RedisClient_get_cart(r, user_id)

RECURSIVE ItemsTotal(_)
ItemsTotal(items) ==
    IF items = {} THEN 0
    ELSE LET it == CHOOSE x \in items : TRUE
         IN it.quantity * it.price_at_purchase + ItemsTotal(items \ {it})

\* Invocation i takes a step.
Steps(i) == ck'[i] # ck[i]

\* C1: a PurchaseEdge write that fails during checkout is absorbed: the
\* invocation never ends with the Neo4j error, it goes on to clear the cart
\* and returns the order result.
C1_GraphFailureAbsorbed ==
    \A i \in Invocations : ck[i].pc = "done" => ck[i].error # "Neo4jError"

\* C2: when a statement of the checkout transaction fails, no Order row and
\* no OrderItem row of the invocation exists, and no step of the invocation
\* up to that failure changed the Fast Store.
C2_TxFailed(i) ==
    ck[i].pc = "done" /\ ck[i].error \in {"ProductsMissing", "PostgresError"}

C2_NoPartialOrder ==
    \A i \in Invocations : C2_TxFailed(i) => OrderRows(i) = {} /\ ItemRows(i) = {}

C2_CartUntouched ==
    \A i \in Invocations :
        (Steps(i) /\ (ck'[i].pc \in {"select", "insert"} \/ C2_TxFailed(i)'))
            => redis' = redis

C2_FailedTransactionLeavesNothing ==
    []C2_NoPartialOrder /\ [][C2_CartUntouched]_vars

C2_Witness ==
    \E i \in Invocations :
        /\ ck[i].pc = "done" /\ ck[i].error = "PostgresError"
        /\ DOMAIN CartOf(redis, ck[i].user_id) = Products
        /\ pg.orders = {}

\* C3: a step of a checkout invocation changes the Fast Store only when the
\* Order and all OrderItems of that invocation are committed.
C3_ClearOnlyAfterCommit ==
    [][\A i \in Invocations :
          (Steps(i) /\ redis' # redis) =>
              /\ OrderRows(i) = {order_row(i, ck[i])}
              /\ ItemRows(i) = order_items_to_insert(i, ck[i])]_vars

C3_Witness ==
    \E i \in Invocations :
        /\ ck[i].pc = "done" /\ ck[i].error = "none"
        /\ CartOf(redis, ck[i].user_id) = EmptyMap
        /\ OrderRows(i) # {}

\* The SELECT of invocation i reads, for every cart line, the price the
\* products table holds.
C4_Select(i) ==
    (ck[i].pc = "select" /\ ck'[i].pc = "insert") =>
        \A p \in DOMAIN ck[i].cart : ck'[i].product_prices[p] = pg.products[p]

C4_Commit(i) ==
    (ck[i].pc = "insert" /\ ck'[i].pc = "neo4j") =>
        /\ pg'.orders \ pg.orders =
              {[id |-> i, user_id |-> ck[i].user_id, order_date |-> i,
                total_price |-> ItemsTotal(pg'.order_items \ pg.order_items),
                status |-> "COMPLETED"]}
        /\ pg'.order_items \ pg.order_items =
              {[order_id |-> i, product_id |-> p, quantity |-> ck[i].cart[p],
                price_at_purchase |-> ck[i].product_prices[p]] :
                  p \in DOMAIN ck[i].cart}
        /\ pg.orders \subseteq pg'.orders
        /\ pg.order_items \subseteq pg'.order_items

C4_Return(i) ==
    (Steps(i) /\ ck'[i].pc = "done" /\ ck'[i].error = "none") =>
        /\ ck'[i].result =
              [order_id |-> i, total_amount |-> ItemsTotal(ItemRows(i)),
               items_count |-> Cardinality(ItemRows(i))]
        /\ Cardinality(ItemRows(i)) = Cardinality(DOMAIN ck[i].cart)
        /\ Cardinality(OrderRows(i)) = 1
        /\ CartOf(redis', ck[i].user_id) = EmptyMap

\* C4: the transaction of a successful checkout adds exactly one Order of the
\* user and one OrderItem per cart line, with the cart's quantity and the
\* price its SELECT read from the products table, the Order's total being the
\* sum of quantity x price; the invocation returns that order id, that total
\* and the number of cart lines, and leaves the cart empty.
C4_SuccessfulCheckout ==
    [][\A i \in Invocations : C4_Select(i) /\ C4_Commit(i) /\ C4_Return(i)]_vars

\* The cart {P1: 2, P2: 1} at 10.00 and 5.00: total 25.00, two items.
C4_Witness ==
    \E i \in Invocations :
        /\ ck[i].pc = "done"
        /\ ck[i].result = [order_id |-> i, total_amount |-> 2500, items_count |-> 2]
        /\ ItemRows(i) =
              {[order_id |-> i, product_id |-> "P1", quantity |-> 2,
                price_at_purchase |-> 1000],
               [order_id |-> i, product_id |-> "P2", quantity |-> 1,
                price_at_purchase |-> 500]}
        /\ CartOf(redis, ck[i].user_id) = EmptyMap

\* C5: a checkout whose cart holds a product id that has no row in products
\* never commits: unless the Record Store itself raises, it ends with
\* ProductsMissing, also when other ids resolve; no Order, OrderItem or
\* PurchaseEdge of the invocation exists and its step changes no store.
C5_Unresolved(i) ==
    ck[i].pc = "select" /\ ~(DOMAIN ck[i].cart \subseteq DOMAIN pg.products)

C5_Step ==
    \A i \in Invocations :
        (C5_Unresolved(i) /\ Steps(i)) =>
            /\ ck'[i].pc = "done"
            /\ ck'[i].error \in {"ProductsMissing", "PostgresError"}
            /\ pg' = pg /\ neo4j' = neo4j /\ redis' = redis

C5_NothingWritten ==
    \A i \in Invocations :
        (ck[i].pc = "done" /\ ck[i].error = "ProductsMissing") =>
            OrderRows(i) = {} /\ ItemRows(i) = {} /\ EdgesOf(i) = {}

C5_ProductsMissing == []C5_NothingWritten /\ [][C5_Step]_vars

\* P1 resolves, P2 does not.
C5_Witness ==
    \E i \in Invocations :
        /\ ck[i].pc = "done" /\ ck[i].error = "ProductsMissing"
        /\ DOMAIN CartOf(redis, ck[i].user_id) = {"P1", "P2"}
        /\ DOMAIN pg.products = {"P1"}

\* C6: a checkout that reads an empty (or absent) cart ends with EmptyCart,
\* unless the read itself raises, and writes to no store.
C6_Step ==
    \A i \in Invocations :
        (ck[i].pc = "idle" /\ Steps(i)
            /\ CartOf(redis, ck'[i].user_id) = EmptyMap) =>
            /\ ck'[i].pc = "done"
            /\ ck'[i].error \in {"EmptyCart", "RedisError"}
            /\ pg' = pg /\ neo4j' = neo4j /\ redis' = redis

C6_NothingWritten ==
    \A i \in Invocations :
        (ck[i].pc = "done" /\ ck[i].error = "EmptyCart") =>
            OrderRows(i) = {} /\ ItemRows(i) = {} /\ EdgesOf(i) = {}

C6_EmptyCart == []C6_NothingWritten /\ [][C6_Step]_vars

C6_Witness ==
    \E i \in Invocations :
        /\ ck[i].pc = "done" /\ ck[i].error = "EmptyCart"
        /\ ~Exists(redis, get_cart_key(ck[i].user_id))
        /\ OrderRows(i) = {} /\ EdgesOf(i) = {}

\* The call of thread w returns ok from its EXPIRE.
C7_Returns(w) ==
    wk.job[w].pc = "expire" /\ wk'.job[w].pc = "idle" /\ last'.out = "ok"

\* C7: every successful cart mutation resets the time-to-live of the cart to
\* CART_TTL: an add or a setQuantity with qty > 0 that returns leaves the cart
\* it wrote, if it still exists, with the full TTL; so does a remove, or a
\* setQuantity with qty = 0, that changes a cart whose expiry is set and
\* leaves it non-empty.
C7_EveryMutationRenewsTtl ==
    [][/\ \A w \in Workers :
              (C7_Returns(w) /\ Exists(redis', wk.job[w].key)) =>
                  /\ wk.job[w].key \in DOMAIN redis'.ttl
                  /\ redis'.ttl[wk.job[w].key] = CART_TTL
       /\ (last'.op \in {"update", "remove"} /\ last'.out = "ok") =>
              \A u \in Users :
                  (/\ CartOf(redis', u) # CartOf(redis, u)
                   /\ CartOf(redis', u) # EmptyMap
                   /\ get_cart_key(u) \in DOMAIN redis.ttl) =>
                      /\ get_cart_key(u) \in DOMAIN redis'.ttl
                      /\ redis'.ttl[get_cart_key(u)] = CART_TTL]_vars

\* C8: a Fast Store failure while reading the cache is treated as a miss on
\* every cached read path: no lookup ends with the error of the cache read.
C8_ReadFailureIsMiss ==
    last.op \in LookupOps => last.out # "RedisGetError"

\* C9: a failure of the cache write that populates an entry, or of the
\* popularity ranking update, is swallowed: no lookup ends with the error of
\* the populating write or of the score increment.
C9_WriteFailureSwallowed ==
    last.op \in LookupOps => last.out \notin {"RedisSetError", "RedisZincrbyError"}

HitCounter == [op \in {"search", "semantic", "similar"} |->
    CASE op = "search" -> "cache_metrics:hits"
      [] op = "semantic" -> "cache_metrics:semantic_hits"
      [] OTHER -> "cache_metrics:similar_hits"]

MissCounter == [op \in {"search", "semantic", "similar"} |->
    CASE op = "search" -> "cache_metrics:misses"
      [] op = "semantic" -> "cache_metrics:semantic_misses"
      [] OTHER -> "cache_metrics:similar_misses"]

CounterOf(r, name) == IF name \in DOMAIN r.counters THEN r.counters[name] ELSE 0

AllCounters == {HitCounter[op] : op \in DOMAIN HitCounter}
               \cup {MissCounter[op] : op \in DOMAIN MissCounter}

\* Exactly the counter name goes up by one.
OnlyCounted(name) ==
    /\ DOMAIN redis'.counters \subseteq AllCounters
    /\ \A n \in AllCounters :
           CounterOf(redis', n) = CounterOf(redis, n) + (IF n = name THEN 1 ELSE 0)

\* Thread w takes a step of its call.
Acts(w) == wk'.job[w] # wk.job[w]

\* Thread w sends the GET of a call of handler kind.
Gets(w, kind) == ~Busy(w) /\ wk'.job[w].kind = kind

\* The call of thread w returns from the command at pc.
Returns(w, kind, pc) ==
    /\ wk.job[w].kind = kind /\ wk.job[w].pc = pc
    /\ wk'.job[w] = IdleJob /\ last'.out = "ok"

\* C10: every cached lookup that returns, whatever its namespace (product
\* lookup, keyword search, semantic search, similar products), has incremented
\* exactly one cache metric counter.
C10_EveryLookupCounted ==
    (last.op \in LookupOps /\ last.out = "ok") => last.counted = 1

SemanticKeys ==
    {SemanticSearchService_generate_cache_key(active_params(a)) : a \in SemanticCalls}

SemanticCallOf(key) ==
    CHOOSE a \in SemanticCalls :
        SemanticSearchService_generate_cache_key(active_params(a)) = key

\* The call gets what its GET finds under its key: None when there is no
\* entry, the stored value when there is one.
C11_Get ==
    \A w \in Workers :
        Gets(w, "semantic") =>
            LET key == wk'.job[w].key
            IN /\ key \notin DOMAIN redis.strings => wk'.job[w].held = PyNone
               /\ key \in DOMAIN redis.strings =>
                      json_dumps(wk'.job[w].held) = redis.strings[key]

\* A call that found no entry increments semantic_misses by 1, runs the query
\* and stores what it returns, which is what the caller gets.
C11_Miss ==
    \A w \in Workers :
        LET job == wk.job[w]
        IN (job.kind = "semantic" /\ job.held = PyNone /\ Acts(w)) =>
              /\ (job.pc = "incr" /\ Busy(w)') =>
                     /\ OnlyCounted("cache_metrics:semantic_misses")
                     /\ wk'.job[w].pc = "query"
              /\ (job.pc = "query" /\ Busy(w)') =>
                     /\ wk'.job[w].held = semantic_rows(pg, SemanticCallOf(job.key))
                     /\ wk'.job[w].queried
              /\ job.pc = "incr" => last'.out # "ok"

C11_Stored ==
    \A w \in Workers :
        Returns(w, "semantic", "setex") =>
            /\ last'.queried /\ last'.value = wk.job[w].held
            /\ redis'.strings =
                  Put(redis.strings, wk.job[w].key, json_dumps(last'.value))
            /\ redis'.ttl[wk.job[w].key] = CACHE_TTL

\* A call that found an entry increments semantic_hits by 1, returns the stored
\* value and runs no query.
C11_Hit ==
    \A w \in Workers :
        LET job == wk.job[w]
        IN (/\ job.kind = "semantic" /\ job.held # PyNone /\ job.pc = "incr"
            /\ Acts(w) /\ last'.out # "RedisIncrError") =>
              /\ Returns(w, "semantic", "incr")
              /\ OnlyCounted("cache_metrics:semantic_hits")
              /\ ~last'.queried
              /\ last'.value = job.held
              /\ redis'.strings = redis.strings /\ redis'.ttl = redis.ttl

\* Apart from expiry only the SETEX of a miss of the same key changes an
\* entry.
C11_EntryKept ==
    \A key \in SemanticKeys \cap DOMAIN redis.strings :
        \/ key \in DOMAIN redis'.strings /\ redis'.strings[key] = redis.strings[key]
        \/ last'.op = "tick"
        \/ \E w \in Workers :
              /\ Returns(w, "semantic", "setex")
              /\ wk.job[w].key = key /\ wk.job[w].queried

\* C11: a semantic search that finds no entry under its key increments
\* semantic_misses by 1, runs the Record Store query and stores what it
\* returns for CACHE_TTL; one that finds an entry, the empty list included,
\* increments semantic_hits by 1, returns the stored value and runs no query;
\* and apart from expiry only a miss of the same key changes an entry.
C11_MissThenHit ==
    [][C11_Get /\ C11_Miss /\ C11_Stored /\ C11_Hit /\ C11_EntryKept]_vars

\* The second identical call of a search whose result is the empty list, made
\* after a product was loaded.
C11_Witness ==
    /\ last.op = "semantic" /\ last.out = "ok" /\ ~last.queried
    /\ last.value = PyList(<< >>)
    /\ Metric(redis, "semantic_misses") = 1
    /\ Metric(redis, "semantic_hits") = 1
    /\ DOMAIN pg.products = Products

ScoreOf(r, product_id) == IF product_id \in DOMAIN r.hot THEN r.hot[product_id] ELSE 0

\* The step raises the score of product_id by 1 and no other score.
C12_Scored(product_id) ==
    /\ DOMAIN redis'.hot = DOMAIN redis.hot \cup {product_id}
    /\ \A p \in Products :
          ScoreOf(redis', p) = ScoreOf(redis, p) + (IF p = product_id THEN 1 ELSE 0)

\* Thread w runs the score increment of its product read, and it succeeds.
C12_Increments(w) ==
    /\ wk.job[w].kind = "product" /\ wk.job[w].pc = "zincrby" /\ Acts(w)
    /\ wk'.job[w].pc \in {"view", "exists"}

\* A read returns a product from the EXISTS of its handler, which it reaches
\* from its score increment or, when a user_id was given, from the add_view
\* that follows the increment; the increment raises the score of that
\* product by 1 and no other score, and no other step of a thread changes a
\* score.
C12_Found ==
    \A w \in Workers :
        LET job == wk.job[w]
        IN /\ (job.kind = "product" /\ wk'.job[w] = IdleJob
                 /\ last'.out = "ok") =>
                  /\ job.pc = "exists"
                  /\ last'.value = job.held /\ last'.value # PyNone
                  /\ job.held.row.id = job.args
           /\ (Acts(w) /\ wk'.job[w].pc = "exists") =>
                  IF given(job.user_id) THEN job.pc = "view"
                  ELSE C12_Increments(w)
           /\ (Acts(w) /\ wk'.job[w].pc = "view") => C12_Increments(w)
           /\ C12_Increments(w) => C12_Scored(job.args)
           /\ (Acts(w) /\ ~C12_Increments(w)) => redis'.hot = redis.hot

\* A read that finds no product ends at its query, where its handler answers
\* 404, and has changed nothing in the Fast Store: its GET and its query
\* write nothing.
C12_NotFound ==
    \A w \in Workers :
        LET job == wk.job[w]
        IN /\ (job.kind = "product" /\ wk'.job[w] = IdleJob
                 /\ last'.out = "HTTPException") =>
                  /\ job.pc = "query"
                  /\ job.args \notin DOMAIN pg.products
                  /\ last'.value = PyNone
           /\ (job.kind = "product" /\ job.pc = "query" /\ Acts(w)
                 /\ job.args \notin DOMAIN pg.products) =>
                  last'.out \in {"HTTPException", "PostgresError"}
           /\ ((Gets(w, "product") \/ (job.kind = "product" /\ job.pc = "query"))
                 /\ Acts(w)) => redis' = redis

\* C12: a product read by id that returns a product, from the cache or from
\* the Record Store, with or without a user_id, has raised the score of that
\* product by exactly 1 and no other score; a read that finds no product
\* changes nothing in the Fast Store: no score and no cache entry.
C12_ReadScoresProduct == [][C12_Found /\ C12_NotFound]_vars

\* P1 was read twice, the second time from the cache and with a user_id.
C12_Witness ==
    /\ last.op = "product" /\ last.out = "ok" /\ ~last.queried
    /\ last.cache_status = "HIT"
    /\ last.value = get_product_from_db(pg, "P1")
    /\ ScoreOf(redis, "P1") = 2
    /\ ScoreOf(redis, "P2") = 0
    /\ ViewsOf(neo4j, WorkerUser, "P1") = 1

InFlight(i) == ck[i].pc \in {"select", "insert", "neo4j", "clear"}

\* C13: checkouts of one user do not exclude each other: while an invocation
\* is between its cart read and its cart clear, another invocation of the
\* same user can read the cart, which is still there, and an invocation
\* that has read a cart whose products all resolve can read its prices and
\* commit, whatever the other invocations are doing.
C13_CheckoutsNotExclusive ==
    /\ \A i, j \in Invocations :
          (/\ InFlight(i) /\ ck[j].pc = "idle"
           /\ \A k \in Invocations : k < j => ck[k].pc # "idle"
           /\ CartOf(redis, ck[i].user_id) # EmptyMap) =>
              ENABLED (/\ Checkout_get_cart(j, ck[i].user_id)
                       /\ ck'[j].pc = "select"
                       /\ ck'[j].cart = CartOf(redis, ck[i].user_id))
    /\ \A j \in Invocations :
          (ck[j].pc = "select" /\ DOMAIN ck[j].cart \subseteq DOMAIN pg.products) =>
              ENABLED (Checkout_select_prices(j) /\ ck'[j].pc = "insert")
    /\ \A j \in Invocations :
          ck[j].pc = "insert" =>
              ENABLED (Checkout_commit(j) /\ ck'[j].pc = "neo4j")

\* Two invocations hold the same cart, the cart is still in the Fast Store,
\* and each has committed its own Order with the same lines.
C13_Witness ==
    /\ ck[1].pc = "clear" /\ ck[2].pc = "clear"
    /\ ck[1].user_id = ck[2].user_id
    /\ ck[1].cart = ck[2].cart
    /\ CartOf(redis, ck[1].user_id) = ck[1].cart
    /\ Cardinality(pg.orders) = 2
    /\ {[product_id |-> it.product_id, quantity |-> it.quantity] : it \in ItemRows(1)}
          = {[product_id |-> it.product_id, quantity |-> it.quantity] : it \in ItemRows(2)}
    /\ ItemRows(1) # {}

\* C14: in every reachable state the total of each Order equals the sum over
\* its OrderItems of quantity x price-at-purchase.
C14_TotalIsSumOfItems ==
    \A o \in pg.orders : o.total_price = ItemsTotal(ItemRows(o.id))

\* C15: no step removes or changes a committed Order or OrderItem row: every
\* row stays as it is, whether the step is a price change, a cart operation
\* or a step of a later checkout, and a row that is added has a new key.
C15_RowsKept ==
    /\ pg.orders \subseteq pg'.orders
    /\ pg.order_items \subseteq pg'.order_items
    /\ \A o \in pg'.orders \ pg.orders : OrderRows(o.id) = {}
    /\ \A it \in pg'.order_items \ pg.order_items : ItemRows(it.order_id) = {}

C15_OrdersImmutable == [][C15_RowsKept]_vars

\* The first Order keeps P1 at 10.00 after the price was raised to 12.00 and
\* a later checkout bought P1 at the new price.
C15_Witness ==
    /\ pg.products["P1"] = RaisedPrice["P1"]
    /\ \E it \in ItemRows(1) : it.product_id = "P1" /\ it.price_at_purchase = 1000
    /\ \E it \in ItemRows(2) : it.product_id = "P1" /\ it.price_at_purchase = 1200
    /\ \A i \in Invocations : \E o \in OrderRows(i) :
          o.total_price = ItemsTotal(ItemRows(i))

\* C16: in every reachable state, also after checkouts that were rolled
\* back, every OrderItem row has its Order row.
C16_ItemsHaveOrder ==
    \A it \in pg.order_items : \E o \in pg.orders : o.id = it.order_id

\* One checkout failed in its transaction and another one committed.
C16_Witness ==
    \E i, j \in Invocations :
        /\ ck[i].pc = "done" /\ ck[i].error = "PostgresError"
        /\ ItemRows(i) = {} /\ OrderRows(i) = {}
        /\ Cardinality(ItemRows(j)) = 2 /\ Cardinality(OrderRows(j)) = 1

\* C17: an invocation moves from the cart read to the transaction, to the
\* PurchaseEdge writes, to the cart clear, or ends by raising; it writes the
\* Record Store only in its transaction, the Relationship Store only after
\* its commit and the Fast Store only in its last step; and every
\* PurchaseEdge has the user of a committed Order and the product and
\* quantity of one of its OrderItems.
C17_Order ==
    \A i \in Invocations :
        Steps(i) =>
            /\ \/ <<ck[i].pc, ck'[i].pc>> \in
                     {<<"idle", "select">>, <<"select", "insert">>,
                      <<"insert", "neo4j">>, <<"neo4j", "neo4j">>,
                      <<"neo4j", "clear">>}
               \/ ck[i].pc \in {"idle", "select", "insert", "neo4j", "clear"}
                     /\ ck'[i].pc = "done" /\ ck'[i].error # "none"
               \/ ck[i].pc = "clear" /\ ck'[i].pc = "done" /\ ck'[i].error = "none"
            /\ pg' # pg => ck[i].pc = "insert" /\ ck'[i].pc = "neo4j"
            /\ neo4j' # neo4j => ck[i].pc = "neo4j" /\ OrderRows(i) # {}
            /\ redis' # redis => ck[i].pc = "clear" /\ ck'[i].error = "none"

C17_EdgesMatchItems ==
    \A e \in neo4j.purchased :
        \E o \in pg.orders, it \in pg.order_items :
            /\ o.id = e.date /\ it.order_id = o.id
            /\ o.user_id = e.user_id
            /\ it.product_id = e.product_id
            /\ it.quantity = e.quantity

C17_StepsInOrder == []C17_EdgesMatchItems /\ [][C17_Order]_vars

\* A checkout of two lines that went through all its steps.
C17_Witness ==
    \E i \in Invocations :
        /\ ck[i].pc = "done" /\ ck[i].error = "none"
        /\ {[product_id |-> e.product_id, quantity |-> e.quantity] : e \in EdgesOf(i)}
              = {[product_id |-> "P1", quantity |-> 2],
                 [product_id |-> "P2", quantity |-> 1]}
        /\ {[product_id |-> it.product_id, quantity |-> it.quantity] : it \in ItemRows(i)}
              = {[product_id |-> "P1", quantity |-> 2],
                 [product_id |-> "P2", quantity |-> 1]}

QtyOf(cart, product_id) == IF product_id \in DOMAIN cart THEN cart[product_id] ELSE 0

OtherCartsKept(user_id) ==
    \A v \in Users \ {user_id} : CartOf(redis', v) = CartOf(redis, v)

\* C18: the HINCRBY of an add(u, p, qty) is sent only for qty > 0 and leaves
\* in the cart of u, for p, the quantity it held before (0 if absent, or if
\* the cart had expired) plus qty; every other line and every other cart is
\* unchanged, and the EXPIRE that follows changes no line of any cart.
C18_AddIsAdditive ==
    [][/\ \A w \in Workers :
             Gets(w, "add") =>
                 \A u \in Users, p \in Products, q \in Quantities :
                     CartService_add_to_cart(w, u, p, q) =>
                         /\ q > 0
                         /\ CartOf(redis', u) =
                               Put(CartOf(redis, u), p,
                                   QtyOf(CartOf(redis, u), p) + q)
                         /\ OtherCartsKept(u)
       /\ \A w \in Workers :
             (wk.job[w].kind = "add" /\ Acts(w)) =>
                 /\ redis'.hashes = redis.hashes
                 /\ last'.op = "add"]_vars

\* A line that reached MaxLineQty.
C18_Witness ==
    /\ last.op = "add" /\ last.out = "ok"
    /\ \E u \in Users :
          /\ QtyOf(CartOf(redis, u), "P1") = MaxLineQty
          /\ QtyOf(CartOf(redis, u), "P2") = 1
          /\ get_cart_key(u) \in DOMAIN redis.ttl
          /\ redis.ttl[get_cart_key(u)] = CART_TTL

\* C19: a setQuantity(u, p, 0) that succeeds leaves the Fast Store as
\* remove(u, p) does: p is not in the cart of u, whatever it held before, and
\* every other line and cart is unchanged.
C19_ZeroIsRemove ==
    [][(last'.op = "update" /\ last'.out = "ok" /\ wk' = wk) =>
          \A w \in Workers, u \in Users, p \in Products :
              CartService_update_item_quantity(w, u, p, 0) =>
                  /\ redis' = RedisClient_remove_from_cart(redis, u, p)
                  /\ p \notin DOMAIN CartOf(redis', u)
                  /\ CartOf(redis', u) = Drop(CartOf(redis, u), p)
                  /\ OtherCartsKept(u)]_vars

\* The last call was a setQuantity that did not renew the expiry: one with
\* quantity 0, on a cart that keeps another line.
C19_Witness ==
    /\ last.op = "update" /\ last.out = "ok"
    /\ DOMAIN CartOf(redis, "U1") = {"P2"}
    /\ get_cart_key("U1") \in DOMAIN redis.ttl
    /\ redis.ttl[get_cart_key("U1")] < CART_TTL
    /\ CartOf(redis, "U2") = EmptyMap

\* C20: the HSET of a setQuantity(u, p, qty) with qty > 0 leaves p at exactly
\* qty, whatever it held before, and every other line and cart unchanged;
\* the EXPIRE that follows changes no line of any cart; and each of the two
\* commands, sent once more, leaves the Fast Store as it is.
C20_SetIsAbsolute ==
    [][/\ \A w \in Workers :
             Gets(w, "update") =>
                 \A u \in Users, p \in Products, q \in Quantities :
                     (q > 0 /\ CartService_update_item_quantity(w, u, p, q)) =>
                         /\ CartOf(redis', u) = Put(CartOf(redis, u), p, q)
                         /\ OtherCartsKept(u)
                         /\ HSET(redis', get_cart_key(u), p, q) = redis'
       /\ \A w \in Workers :
             (wk.job[w].kind = "update" /\ Acts(w)) =>
                 /\ redis'.hashes = redis.hashes
                 /\ last'.out = "ok" =>
                        EXPIRE(redis', wk.job[w].key, CART_TTL) = redis']_vars

C20_Witness ==
    /\ last.op = "update" /\ last.out = "ok"
    /\ CartOf(redis, "U1") = [p \in Products |-> IF p = "P1" THEN 1 ELSE 2]
    /\ get_cart_key("U1") \in DOMAIN redis.ttl
    /\ redis.ttl[get_cart_key("U1")] = CART_TTL
    /\ CartOf(redis, "U2") = EmptyMap

\* C21: in every reachable state every quantity stored in a cart is an
\* integer >= 1 (and no cart is stored without a line).
C21_QuantitiesPositive ==
    \A key \in DOMAIN redis.hashes :
        /\ DOMAIN redis.hashes[key] # {}
        /\ \A p \in DOMAIN redis.hashes[key] :
              redis.hashes[key][p] \in Nat /\ redis.hashes[key][p] >= 1

\* A setQuantity with quantity 0 was the last call: it renewed no expiry, U1
\* has no cart and the cart of U2 keeps one line.
C21_Witness ==
    /\ last.op = "update" /\ last.out = "ok"
    /\ ~Exists(redis, get_cart_key("U1"))
    /\ CartOf(redis, "U2") = [p \in {"P1"} |-> 1]
    /\ get_cart_key("U2") \in DOMAIN redis.ttl
    /\ redis.ttl[get_cart_key("U2")] < CART_TTL

\* C22: an add with quantity <= 0 and a setQuantity with quantity < 0 end
\* with the validation error and leave every store, the cart and its
\* time-to-live included, as it was.
C22_Unchanged ==
    last'.out = "ValueError" /\ redis' = redis /\ pg' = pg /\ neo4j' = neo4j

C22_Rejected ==
    /\ (last'.op = "add" \/ \E w \in Workers : Gets(w, "add")) =>
          \/ C22_Unchanged
          \/ \A w \in Workers, u \in Users, p \in Products, q \in Quantities :
                 ~(q <= 0 /\ CartService_add_to_cart(w, u, p, q))
    /\ (last'.op = "update" \/ \E w \in Workers : Gets(w, "update")) =>
          \/ C22_Unchanged
          \/ \A w \in Workers, u \in Users, p \in Products, q \in Quantities :
                 ~(q < 0 /\ CartService_update_item_quantity(w, u, p, q))
    /\ last'.out = "ValueError" => redis' = redis

C22_InvalidQuantityRejected == [][C22_Rejected]_vars

\* A rejected add on a cart that holds a line and has used half its TTL.
C22_Witness ==
    /\ last.op = "add" /\ last.out = "ValueError"
    /\ CartOf(redis, "U1") = [p \in {"P1"} |-> 1]
    /\ get_cart_key("U1") \in DOMAIN redis.ttl
    /\ redis.ttl[get_cart_key("U1")] = CART_TTL - TickQuantum

\* C23: the fingerprint of a dict of search parameters is the fingerprint of
\* every dict that holds the same (name, value) pairs in another insertion
\* order.
Items(params) == {params[n] : n \in 1..Len(params)}

C23_OrderIndependent ==
    (last.op = "semantic" /\ last.value # PyNone) =>
        \A other \in ParamDicts :
            Items(other) = Items(last.value.items) =>
                SemanticSearchService_generate_cache_key(other) = last.key

\* A dict in the reverse of the sorted order has the key of the sorted one.
C23_Witness ==
    /\ last.op = "semantic"
    /\ last.value = PyList(<<<<"top_k", "10">>, <<"query", "gift">>,
                            <<"max_price", "6.0">>, <<"category", "Home">>>>)
    /\ last.key = SemanticSearchService_generate_cache_key(
                      <<<<"category", "Home">>, <<"max_price", "6.0">>,
                        <<"query", "gift">>, <<"top_k", "10">>>>)
    /\ last.key = "semantic_search:md5<category=Home&max_price=6.0&query=gift&top_k=10>"

\* C24: a key of one namespace is the key of no other namespace, whatever
\* the raw arguments the two are built from.
KeysOf(namespace) ==
    CASE namespace = "product" -> {product_cache_key(x) : x \in RawStrings}
      [] namespace = "search" -> {search_cache_key(a) : a \in SearchArgs}
      [] namespace = "semantic" ->
            {SemanticSearchService_generate_cache_key(d) : d \in ParamDicts}
      [] OTHER -> {similar_cache_key(x, k) : x \in RawStrings, k \in TopKs}

C24_NamespacesDisjoint ==
    last.op \in LookupOps =>
        /\ last.key \in KeysOf(last.op)
        /\ \A namespace \in LookupOps \ {last.op} : last.key \notin KeysOf(namespace)

\* The product id "P1:5" and the similar-products call ("P1", 5).
C24_Witness ==
    /\ last.op = "similar"
    /\ last.key = "similar_products:P1:5"
    /\ product_cache_key("similar_products:P1:5") # last.key
    /\ product_cache_key("P1:5") = "product:P1:5"

\* C25: no result of a similar-products lookup, computed from the Record
\* Store or served from the cache, and no entry stored under a
\* similar-products key, holds the product the lookup was made for.
SimilarCallOf(key) ==
    CHOOSE c \in SimilarCalls : similar_cache_key(c[1], c[2]) = key

IdsOf(list) == {list.items[n].row.id : n \in 1..Len(list.items)}

C25_SimilarExcludesSelf ==
    /\ (last.op = "similar" /\ last.out = "ok") =>
          SimilarCallOf(last.key)[1] \notin IdsOf(last.value)
    /\ \A c \in SimilarCalls :
          similar_cache_key(c[1], c[2]) \in DOMAIN redis.strings =>
              c[1] \notin IdsOf(RedisClient_get_json(redis, similar_cache_key(c[1], c[2])))

\* The products similar to P2, served from the cache: P1, with the similarity
\* to the embedding of P2.
C25_Witness ==
    /\ last.op = "similar" /\ last.out = "ok" /\ ~last.queried
    /\ last.key = similar_cache_key("P2", 5)
    /\ last.value = PyList(<<PyDict([id |-> "P1", price |-> CatalogPrice["P1"],
                                     similarity |-> Some(ProductSimilarity["P1"])])>>)

\* C26: the ranking read lists members with their current scores from the
\* highest score down: a member listed before another has a score at least
\* as high, and a member that is left out has a score no higher than any
\* listed one.
C26_DescendingScores ==
    (last.op = "hot" /\ last.out = "ok") =>
        LET items == last.value.items
        IN /\ \A n \in 1..Len(items) :
                 /\ items[n][1] \in DOMAIN redis.hot
                 /\ items[n][2] = redis.hot[items[n][1]]
           /\ \A m, n \in 1..Len(items) :
                 m < n => items[m][2] >= items[n][2] /\ items[m][1] # items[n][1]
           /\ \A p \in DOMAIN redis.hot :
                 (\A n \in 1..Len(items) : items[n][1] # p) =>
                     \A n \in 1..Len(items) : items[n][2] >= redis.hot[p]

\* Two reads of P1 and one of P2: P1 is listed before P2.
C26_Witness ==
    /\ last.op = "hot" /\ last.out = "ok" /\ last.key = "10"
    /\ last.value = PyList(<<<<"P1", 2>>, <<"P2", 1>>>>)

\* The reads of product_id that have returned it.
ReadsOf(product_id) ==
    IF product_id \in DOMAIN wk.reads THEN wk.reads[product_id] ELSE 0

\* The reads of product_id that are past their ZINCRBY and have not ended.
Viewing(product_id) ==
    Cardinality({w \in Workers : /\ wk.job[w].kind = "product"
                                 /\ wk.job[w].pc \in {"view", "exists"}
                                 /\ wk.job[w].args = product_id})

C27_Tallies ==
    /\ wk.tallied
    /\ \A p \in Products : ScoreOf(redis, p) = ReadsOf(p) + Viewing(p)
    /\ redis.counters = wk.counted
    /\ \A p \in Products :
          QtyOf(CartOf(redis, WorkerUser), p) = QtyOf(wk.added, <<WorkerUser, p>>)

C27_Monotone ==
    /\ \A p \in DOMAIN redis.hot :
          p \in DOMAIN redis'.hot /\ redis'.hot[p] >= redis.hot[p]
    /\ \A k \in DOMAIN redis.counters :
          k \in DOMAIN redis'.counters /\ redis'.counters[k] >= redis.counters[k]

\* C27 as stated: whatever the interleaving of the threads' commands, the
\* score of a product is the number of completed reads that returned it
\* (and of those past their ZINCRBY that have still to end), every cache
\* metric counter is the number of lookups counted on it, every cart line is
\* the sum of the quantities added to it (those of adds that have run their
\* HINCRBY), and no score or counter ever decreases.
C27_NoLostIncrement == []C27_Tallies /\ [][C27_Monotone]_vars

\* The query of a lookup that raises ends the call with that error and no
\* value, and changes nothing in the Fast Store.
C28_Failed ==
    (last'.op \in LookupOps /\ last'.out = "PostgresError") =>
        /\ last'.queried
        /\ last'.value = PyNone
        /\ redis' = redis

\* A lookup writes its entry after its query has returned: a cache entry
\* changes only by expiry or in the SETEX of a call that ran its query.
C28_WrittenAfterQuery ==
    redis'.strings # redis.strings =>
        \/ last'.op = "tick"
        \/ \E w \in Workers :
              /\ wk.job[w].pc = "setex" /\ wk.job[w].queried /\ Acts(w)
              /\ redis'.strings =
                    Put(redis.strings, wk.job[w].key, json_dumps(wk.job[w].held))

\* C28: a cached lookup whose Record Store query raises ends with that error,
\* returns no value, and writes no cache entry: the failing query changes
\* nothing in the Fast Store, and no command the call sends before its query
\* returns writes an entry.
C28_ComputeFailurePropagates == [][C28_Failed /\ C28_WrittenAfterQuery]_vars

\* A semantic search failed in its query after an earlier miss of the same
\* kind: both were counted as misses and the key holds no entry.
C28_Witness ==
    /\ last.op = "semantic" /\ last.out = "PostgresError"
    /\ last.key \notin DOMAIN redis.strings
    /\ Metric(redis, "semantic_misses") = 2
    /\ Metric(redis, "semantic_hits") = 0

\* The key holds a text json.loads does not turn into a value.
C29_Undecodable(r, key) == key \in DOMAIN r.strings /\ r.strings[key].loads # "value"

\* A call whose GET finds such a text goes on as after a miss.
C29_Miss ==
    \A w \in Workers :
        (Gets(w, wk'.job[w].kind) /\ C29_Undecodable(redis, wk'.job[w].key)) =>
            /\ wk'.job[w].held = PyNone
            /\ wk'.job[w].pc = (IF wk'.job[w].kind = "product" THEN "query" ELSE "incr")

\* A call that ends in its cache read ends with the error of the Fast Store.
C29_ReadEnds ==
    (wk' = wk /\ last'.op \in LookupOps /\ C29_Undecodable(redis, last'.key)) =>
        last'.out = "RedisGetError"

\* C29: a lookup whose key holds a text that cannot be decoded goes the way of
\* a miss: its cache read returns None, so that the call queries the Record
\* Store, and the call never ends in its cache read with an error of the
\* decoding.
C29_UndecodableIsMiss == [][C29_Miss /\ C29_ReadEnds]_vars

C30_Committed(i) ==
    /\ ck'[i].pc = "neo4j"
    /\ pg'.orders = pg.orders \cup {order_row(i, ck'[i])}
    /\ pg'.order_items = pg.order_items \cup order_items_to_insert(i, ck'[i])
    /\ OrderRows(i) = {} /\ ItemRows(i) = {}
    /\ {it.product_id : it \in ItemRows(i)'} = DOMAIN ck[i].cart
    /\ pg'.products = pg.products
    /\ pg'.product_embeddings = pg.product_embeddings

C30_RolledBack(i) ==
    /\ ck'[i].pc = "done"
    /\ ck'[i].error \in {"ProductsMissing", "PostgresError"}
    /\ pg' = pg

\* The transaction of a checkout.
C30_Checkout ==
    \A i \in Invocations :
        /\ (Steps(i) /\ ck[i].pc = "select") =>
               (ck'[i].pc = "insert" /\ pg' = pg) \/ C30_RolledBack(i)
        /\ (Steps(i) /\ ck[i].pc = "insert") =>
               C30_Committed(i) \/ C30_RolledBack(i)

\* The transaction of load_products.
C30_LoadProducts ==
    last'.op = "load" =>
        \/ /\ last'.out = "ok"
           /\ \E p \in Products \ DOMAIN pg.products :
                 pg' = [pg EXCEPT !.products = Put(@, p, CatalogPrice[p])]
        \/ last'.out = "PostgresError" /\ pg' = pg

\* The transaction of _store_embeddings_batch.
C30_StoreEmbeddings ==
    last'.op = "embed" =>
        \/ /\ last'.out = "ok"
           /\ \E product_ids \in Batches :
                 /\ product_ids \subseteq DOMAIN pg.products
                 /\ pg' = [pg EXCEPT !.product_embeddings = @ \cup product_ids]
        \/ last'.out = "PostgresError" /\ pg' = pg

\* The transaction of load_into_postgres: the Order row and one OrderItem row
\* for every product of its lines.
C30_LoadPurchases ==
    last'.op = "generate" =>
        \/ /\ last'.out = "ok"
           /\ pg'.products = pg.products
           /\ pg'.product_embeddings = pg.product_embeddings
           /\ pg.orders \subseteq pg'.orders
           /\ pg.order_items \subseteq pg'.order_items
           /\ \E order_id \in GeneratedOrderIds, lines \in GeneratedPurchases :
                 /\ {o.id : o \in pg'.orders \ pg.orders} = {order_id}
                 /\ {it.order_id : it \in pg'.order_items \ pg.order_items}
                        = {order_id}
                 /\ {it.product_id : it \in pg'.order_items \ pg.order_items}
                        = {lines[n].product_id : n \in 1..Len(lines)}
        \/ last'.out = "PostgresError" /\ pg' = pg

\* The Record Store changes in no other step.
C30_NothingInBetween ==
    pg' # pg =>
        \/ last'.op \in {"load", "embed", "generate"}
        \/ \E i \in Invocations : Steps(i) /\ ck[i].pc = "insert"

\* C30: a scoped transaction of the Record Store is all or nothing, whoever
\* runs it (the checkout, the relational loader, the vector loader, the
\* purchase generator).  No row is visible while its statements run; when
\* its block ends normally all the rows it wrote appear in the same step,
\* next to the rows that were there; when the connection, a statement or the
\* commit raises, the Record Store is as it was before the block and the call
\* ends with that error.
C30_TransactionAllOrNothing ==
    [][/\ C30_Checkout
       /\ C30_LoadProducts
       /\ C30_StoreEmbeddings
       /\ C30_LoadPurchases
       /\ C30_NothingInBetween]_vars

\* One checkout has just committed its order with both items and has not
\* yet written a PurchaseEdge; another one was rolled back and left no row;
\* the loaders have committed the row and the embedding of P2, and the
\* purchase generator its order.
C30_Witness ==
    \E i, j \in Invocations :
        /\ ck[i].pc = "neo4j" /\ EdgesOf(i) = {}
        /\ Cardinality(OrderRows(i)) = 1 /\ Cardinality(ItemRows(i)) = 2
        /\ ck[j].pc = "done" /\ ck[j].error = "PostgresError"
        /\ OrderRows(j) = {} /\ ItemRows(j) = {}
        /\ pg.product_embeddings = Products
        /\ \E o \in pg.orders : o.id \in GeneratedOrderIds

\* The expiry of every cart but the one of user_id is as it was.
OtherExpiriesKept(user_id) ==
    \A v \in Users \ {user_id} :
        /\ get_cart_key(v) \in DOMAIN redis'.ttl <=> get_cart_key(v) \in DOMAIN redis.ttl
        /\ get_cart_key(v) \in DOMAIN redis.ttl =>
              redis'.ttl[get_cart_key(v)] = redis.ttl[get_cart_key(v)]

\* C31: a remove(u, p) that succeeds leaves the cart of u without p and with
\* every other line as it was, and every other cart and its expiry unchanged;
\* and a remove of a product that is not in the cart can succeed, leaving the
\* Fast Store as it is.
C31_RemoveAbsent ==
    \A u \in Users, p \in Products :
        p \notin DOMAIN CartOf(redis, u) =>
            ENABLED (CartService_remove_from_cart(u, p) /\ last'.out = "ok"
                        /\ redis' = redis)

C31_RemoveStep ==
    (last'.op = "remove" /\ last'.out = "ok") =>
        \A u \in Users, p \in Products :
            CartService_remove_from_cart(u, p) =>
                /\ p \notin DOMAIN CartOf(redis', u)
                /\ CartOf(redis', u) = Drop(CartOf(redis, u), p)
                /\ OtherCartsKept(u)
                /\ OtherExpiriesKept(u)

C31_RemoveDeletesOneLine == []C31_RemoveAbsent /\ [][C31_RemoveStep]_vars

\* A remove took P1 out of the cart of U1, which keeps P2, next to the full
\* cart of U2.
C31_Witness ==
    /\ last.op = "remove" /\ last.out = "ok"
    /\ DOMAIN CartOf(redis, "U1") = {"P2"}
    /\ CartOf(redis, "U1")["P2"] = 2
    /\ DOMAIN CartOf(redis, "U2") = Products

\* C32: a clear(u) that succeeds deletes the cart key of u, so that a read of
\* the cart returns the empty mapping, and leaves every other cart and its
\* expiry unchanged.
C32_ClearStep ==
    (last'.op = "clear" /\ last'.out = "ok") =>
        \A u \in Users :
            CartService_clear_cart(u) =>
                /\ ~Exists(redis', get_cart_key(u))
                /\ get_cart_key(u) \notin DOMAIN redis'.ttl
                /\ RedisClient_get_cart(redis', u) = EmptyMap
                /\ OtherCartsKept(u)
                /\ OtherExpiriesKept(u)

C32_ClearDeletesCart == [][C32_ClearStep]_vars

\* A clear emptied the cart of U1 next to the full cart of U2.
C32_Witness ==
    /\ last.op = "clear" /\ last.out = "ok"
    /\ CartOf(redis, "U1") = EmptyMap
    /\ DOMAIN CartOf(redis, "U2") = Products
    /\ CartOf(redis, "U2")["P1"] = 2

\* What int() of Python gives for each text in use that it accepts.
C33_IntegerOf ==
    [t \in {<<49>>, <<50>>, <<49, 50>>, <<48>>, <<45, 49>>, <<32, 51, 32>>,
            <<43, 52>>, <<49, 95, 48>>, <<48, 48, 55>>, <<50, 10>>, <<51, 13>>,
            <<51, 12>>, <<11, 51>>, <<133, 51, 160>>, <<1635>>,
            <<65297, 1634>>, <<45, 1635>>} |->
        CASE t = <<49>> -> 1 [] t = <<50>> -> 2 [] t = <<49, 50>> -> 12
          [] t = <<48>> -> 0 [] t = <<45, 49>> -> -1 [] t = <<32, 51, 32>> -> 3
          [] t = <<43, 52>> -> 4 [] t = <<49, 95, 48>> -> 10
          [] t = <<48, 48, 55>> -> 7 [] t = <<50, 10>> -> 2
          [] t = <<51, 13>> -> 3 [] t = <<51, 12>> -> 3 [] t = <<11, 51>> -> 3
          [] t = <<133, 51, 160>> -> 3 [] t = <<1635>> -> 3
          [] t = <<65297, 1634>> -> 12 [] OTHER -> -3]

PurchasedBy(g, user_id) ==
    {e.product_id : e \in {x \in g.purchased : x.user_id = user_id}}

\* The products of the OrderItems of the Orders of the user.
OrderedBy(db, user_id) ==
    {it.product_id :
        it \in {x \in db.order_items :
                   \E o \in db.orders : o.id = x.order_id /\ o.user_id = user_id}}

ProductIdsOf(list) == {list.items[n].row.product_id : n \in 1..Len(list.items)}

\* No other user bought a product the user bought.
C34_NoCoPurchaser(user_id) ==
    ~\E e1, e2 \in neo4j.purchased :
        e1.user_id = user_id /\ e2.user_id # user_id /\ e2.product_id = e1.product_id

\* No buyer of the product bought another product.
C34_NoCoPurchase(product_id) ==
    ~\E e1, e2 \in neo4j.purchased :
        e1.product_id = product_id /\ e2.user_id = e1.user_id
            /\ e2.product_id # product_id

\* The recommendations of a user hold no product the user has purchased: none
\* the user has a PURCHASED relationship to and none of an OrderItem of an
\* Order of the user.
C34_NonePurchased ==
    (last.op = "recommend" /\ last.out = "ok") =>
        ProductIdsOf(last.value)
            \cap (PurchasedBy(neo4j, last.key) \cup OrderedBy(pg, last.key)) = {}

C34_Results ==
    /\ (last.op = "recommend" /\ last.out = "ok" /\ C34_NoCoPurchaser(last.key)) =>
          last.value = PyList(<< >>)
    /\ (last.op = "also_bought" /\ last.out = "ok") =>
          /\ last.key \notin ProductIdsOf(last.value)
          /\ C34_NoCoPurchase(last.key) => last.value = PyList(<< >>)

C34_EmptyNotError ==
    /\ \A u \in Users :
          C34_NoCoPurchaser(u) =>
              ENABLED (Neo4jClient_get_recommendations(u, 5) /\ last'.out = "ok")
    /\ \A p \in Products :
          C34_NoCoPurchase(p) =>
              ENABLED (Neo4jClient_get_also_bought_products(p, 5) /\ last'.out = "ok")

\* C34: the recommendations of a user hold no product the user has already
\* purchased, the also-bought products of p do not hold p, and where the
\* graph has no co-purchase either query returns the empty list: it can
\* return, and what it returns is empty.  The queries that are followed are
\* made while no checkout is under way.
C34_RecommendationsExclude ==
    C34_NonePurchased /\ C34_Results /\ C34_EmptyNotError

\* C35: an invocation of the checkout that ended with an error has no Order
\* and no OrderItem committed (so that a retry cannot create a second Order
\* from the same cart).
C35_ErrorMeansNoOrder ==
    \A i \in Invocations :
        (ck[i].pc = "done" /\ ck[i].error # "none") =>
            OrderRows(i) = {} /\ ItemRows(i) = {}

\* C36: every line of the cart that the last step of a checkout deletes is an
\* OrderItem of that invocation, with the same quantity.
C36_ClearedLinesWereOrdered ==
    [][\A i \in Invocations :
          (Steps(i) /\ ck[i].pc = "clear" /\ ck'[i].error = "none") =>
              \A p \in DOMAIN CartOf(redis, ck[i].user_id) :
                  \E it \in ItemRows(i) :
                      /\ it.product_id = p
                      /\ it.quantity = CartOf(redis, ck[i].user_id)[p]]_vars

\* C37: two dicts of active parameters that differ in a name or a value have
\* different semantic-search keys.
C37_CanonicalStringInjective ==
    (last.op = "semantic" /\ last.value # PyNone) =>
        \A other \in ParamDicts :
            Items(other) # Items(last.value.items) =>
                SemanticSearchService_generate_cache_key(other) # last.key

\* The filters two keyword searches put into their query are the same.
C38_SameQuery(a, b) ==
    /\ given(a.query) = given(b.query)
    /\ given(a.query) => Val(a.query) = Val(b.query)
    /\ given(a.category_id) = given(b.category_id)
    /\ given(a.category_id) => Val(a.category_id) = Val(b.category_id)
    /\ a.min_price = b.min_price /\ a.max_price = b.max_price
    /\ a.limit = b.limit

\* C38: two keyword searches that have the same cache key run the same
\* query.
C38_KeysSeparateQueries ==
    last.op = "search" =>
        \A a, b \in SearchArgs :
            (search_cache_key(a) = last.key /\ search_cache_key(b) = last.key) =>
                C38_SameQuery(a, b)

\* C39: a read of the ranking with top_n returns at most top_n entries.
C39_AtMostTopN ==
    (last.op = "hot" /\ last.out = "ok") =>
        \A top_n \in TopNs :
            ToString(top_n) = last.key => Len(last.value.items) <= top_n

\* C40: every cart key has an expiry.
C40_CartsExpire ==
    \A key \in DOMAIN redis.hashes : key \in DOMAIN redis.ttl

====
